---- MODULE Spec2Model ----
(* A model of Anatomize v1.1.1 (src/anatomize.ts): the token type registry, *)
(* the tokenizer with its lookahead buffer, the character matcher and the   *)
(* parser facade with its parsing-mode flag.                                *)
(* Strings of the source are sequences of one-character strings; indices    *)
(* are 0-based as in the code, so buffer[i + 1] is the code's buffer[i].    *)
EXTENDS Integers, Sequences, FiniteSets, TLC

\* ---------------------------------------------------------------- bounds
MaxLen == 2
MaxTypes == 2
MaxOffset == 1
\* the longest source given to the parser of the guide
MaxGuideLen == 4

\* ------------------------------------------------------------ input sets
\* "1" is a digit, " " a blank, "n" a newline.
Chars == {"1", " ", "n"}

RECURSIVE SeqsUpTo(_, _)
SeqsUpTo(S, n) ==
    IF n = 0 THEN {<<>>}
    ELSE LET shorter == SeqsUpTo(S, n - 1)
         IN  shorter \cup {Append(s, c) : s \in {t \in shorter : Len(t) = n - 1}, c \in S}

Sources == SeqsUpTo(Chars, MaxLen)

\* The characters of the sources of the guide's parser: a digit, the
\* semicolon, "n" for a newline and the two quotes.
GuideChars == {"1", ";", "n", "'", "\""}

GuideSources == SeqsUpTo(GuideChars, MaxGuideLen)

\* A token name; "" stands for a falsy name (null, undefined or '').
NoName == ""

\* ------------------------------------------------------------- data model
\* interface Token; Null is the code's null entry (no type, no value).
Null == [type |-> "", value |-> <<>>, hidden |-> FALSE]

\* No constraint given to readChar / omitChar (the default null argument).
NoConstraint == [arr |-> FALSE, items |-> <<>>]
OneChar(c) == [arr |-> FALSE, items |-> <<c>>]

\* A RegExp matcher: one or more (or, with star, zero or more) characters
\* of a class, anchored at the start of the input or not; with one, a single
\* character of the class.
RegExp(set, star, anchored) ==
    [kind |-> "RegExp", set |-> set, star |-> star, anchored |-> anchored,
     one |-> FALSE, steps |-> <<>>, ret |-> ""]

\* An anchored RegExp of exactly one character of a class, as /^;/.
RegExpOne(set) == [RegExp(set, FALSE, TRUE) EXCEPT !.one = TRUE]

\* A matcher routine: a sequence of steps. Each step names what it does
\* (op), its constraint and what the routine does when the step yields
\* nothing (onMiss: "false", "null" and "undefined" return that value,
\* "ignore" goes on, "throw" raises the routine's own error); ret is what the
\* routine returns at its end. The steps are the calls "read" (readChar) and
\* "omit" (omitChar) and those the STRING routine of the guide is made of:
\* "peek" (peekChar tested against the constraint), "readToCharAt0" (its
\* while loop) and "throwIfEOF".
Routine(steps, ret) ==
    [kind |-> "function", set |-> {}, star |-> FALSE, anchored |-> TRUE,
     one |-> FALSE, steps |-> steps, ret |-> ret]

Step(op, constraint, onMiss) == [op |-> op, constraint |-> constraint, onMiss |-> onMiss]

\* A matcher argument that is neither a function nor a RegExp.
BadMatcher ==
    [kind |-> "other", set |-> {}, star |-> FALSE, anchored |-> TRUE,
     one |-> FALSE, steps |-> <<>>, ret |-> ""]

\* --------------------------------------------------------- error messages
ErrWhilstParsing == "Method may not be called whilst parsing"
ErrNotParsing == "Method may only be called whilst parsing"
ErrMatcherType == "Unexpected Type of Matcher"
ErrUndefinedToken == "Undefined Token"
ErrEndOfTokens == "Cannot read another Token"
ErrUnexpectedToken == "Unexpected Token"
ErrReadChar == "Cannot read another Character"
ErrOmitChar == "Cannot omit another Character"
UserError == "user error"
NoError == ""

\* ------------------------------------------------------ character matcher
\* #Matcher.#isEOF
MatcherIsEOF(buf, idx) == idx >= Len(buf)

\* #Matcher.#constraintCheck
ConstraintCheck(input, constraint) ==
    IF constraint.arr
    THEN \E i \in 1..Len(constraint.items) : constraint.items[i] = input
    ELSE constraint.items # <<>> /\ constraint.items[1] = input

\* `if (constraint)`: an array is always truthy, a string only when non-empty.
ConstraintGiven(constraint) == constraint.arr \/ constraint.items # <<>>

\* ReadChar passing over the character that does not meet the constraint.
ReadCharSkipping(buf, idx, result, constraint) ==
    IF MatcherIsEOF(buf, idx)
    THEN [err |-> ErrReadChar, ret |-> <<>>, index |-> idx, result |-> result]
    ELSE IF ConstraintGiven(constraint)
            /\ ~ConstraintCheck(buf[idx + 1], constraint)
    THEN [err |-> NoError, ret |-> <<>>, index |-> idx + 1, result |-> result]
    ELSE [err |-> NoError, ret |-> <<buf[idx + 1]>>, index |-> idx + 1,
          result |-> Append(result, buf[idx + 1])]

\* ReadChar returning null at the end of the input.
ReadCharNullAtEOF(buf, idx, result, constraint) ==
    IF MatcherIsEOF(buf, idx)
    THEN [err |-> NoError, ret |-> <<>>, index |-> idx, result |-> result]
    ELSE IF ConstraintGiven(constraint)
            /\ ~ConstraintCheck(buf[idx + 1], constraint)
    THEN [err |-> NoError, ret |-> <<>>, index |-> idx, result |-> result]
    ELSE [err |-> NoError, ret |-> <<buf[idx + 1]>>, index |-> idx + 1,
          result |-> Append(result, buf[idx + 1])]

\* #Matcher.#readChar: ret is <<c>> for the character returned, <<>> for null.
ReadChar(buf, idx, result, constraint) ==
    IF MatcherIsEOF(buf, idx)
    THEN [err |-> ErrReadChar, ret |-> <<>>, index |-> idx, result |-> result]
    ELSE IF ConstraintGiven(constraint)
            /\ ~ConstraintCheck(buf[idx + 1], constraint)
    THEN [err |-> NoError, ret |-> <<>>, index |-> idx, result |-> result]
    ELSE [err |-> NoError, ret |-> <<buf[idx + 1]>>, index |-> idx + 1,
          result |-> Append(result, buf[idx + 1])]

\* OmitChar adding the character to the result as readChar does.
OmitCharKeeping(buf, idx, result, constraint) ==
    IF MatcherIsEOF(buf, idx)
    THEN [err |-> ErrOmitChar, ret |-> <<>>, index |-> idx, result |-> result]
    ELSE IF ConstraintGiven(constraint)
            /\ ~ConstraintCheck(buf[idx + 1], constraint)
    THEN [err |-> NoError, ret |-> <<>>, index |-> idx, result |-> result]
    ELSE [err |-> NoError, ret |-> <<buf[idx + 1]>>, index |-> idx + 1,
          result |-> Append(result, buf[idx + 1])]

\* #Matcher.#omitChar
OmitChar(buf, idx, result, constraint) ==
    IF MatcherIsEOF(buf, idx)
    THEN [err |-> ErrOmitChar, ret |-> <<>>, index |-> idx, result |-> result]
    ELSE IF ConstraintGiven(constraint)
            /\ ~ConstraintCheck(buf[idx + 1], constraint)
    THEN [err |-> NoError, ret |-> <<>>, index |-> idx, result |-> result]
    ELSE [err |-> NoError, ret |-> <<buf[idx + 1]>>, index |-> idx + 1,
          result |-> result]

\* #Matcher.#peekChar and #Matcher.#charAt: <<c>> for the character, <<>> for
\* the undefined of a position outside the input.
PeekChar(buf, idx, offset) ==
    IF idx + offset + 1 \in 1..Len(buf) THEN <<buf[idx + offset + 1]>> ELSE <<>>

CharAt(buf, i) == IF i + 1 \in 1..Len(buf) THEN <<buf[i + 1]>> ELSE <<>>

\* `if (!constraint.includes(peek())) return;`: ret is <<>> when the
\* character ahead is none of the constraint's.
PeekIn(buf, idx, result, constraint) ==
    [err |-> NoError,
     ret |-> IF PeekChar(buf, idx, 0) # <<>>
                /\ ConstraintCheck(PeekChar(buf, idx, 0)[1], constraint)
             THEN PeekChar(buf, idx, 0)
             ELSE <<>>,
     index |-> idx, result |-> result]

\* `while (!eof() && peek() !== at(0)) read();`
RECURSIVE ReadToCharAt0(_, _, _)
ReadToCharAt0(buf, idx, result) ==
    IF ~MatcherIsEOF(buf, idx) /\ PeekChar(buf, idx, 0) # CharAt(buf, 0)
    THEN ReadToCharAt0(buf, idx + 1, Append(result, buf[idx + 1]))
    ELSE [err |-> NoError, ret |-> CharAt(buf, 0), index |-> idx, result |-> result]

\* `if (eof()) throw SyntaxError('Literal has not been terminated');`
ThrowIfEOF(buf, idx, result) ==
    [err |-> IF MatcherIsEOF(buf, idx) THEN UserError ELSE NoError,
     ret |-> CharAt(buf, 0), index |-> idx, result |-> result]

\* The call this.#pattern(readChar, peekChar, omitChar, ...) for a routine of
\* the input set: runs the routine's calls from step k on.
RECURSIVE RunPattern(_, _, _, _, _)

\* The routine after its k-th call has ended as r: an error of the call
\* leaves the routine, a null makes it do what the step says, and otherwise
\* it goes on with its next call.
AfterCall(m, buf, k, r) ==
    IF r.err # NoError
    THEN [err |-> r.err, ret |-> "", index |-> r.index, result |-> r.result]
    ELSE IF r.ret = <<>> /\ m.steps[k].onMiss = "throw"
    THEN [err |-> UserError, ret |-> "", index |-> r.index, result |-> r.result]
    ELSE IF r.ret = <<>> /\ m.steps[k].onMiss \in {"false", "null", "undefined"}
    THEN [err |-> NoError, ret |-> m.steps[k].onMiss, index |-> r.index,
          result |-> r.result]
    ELSE RunPattern(m, buf, k + 1, r.index, r.result)

\* The k-th step of the routine.
CallPrimitive(step, buf, idx, result) ==
    CASE step.op = "read" -> ReadChar(buf, idx, result, step.constraint)
      [] step.op = "omit" -> OmitChar(buf, idx, result, step.constraint)
      [] step.op = "peek" -> PeekIn(buf, idx, result, step.constraint)
      [] step.op = "readToCharAt0" -> ReadToCharAt0(buf, idx, result)
      [] step.op = "throwIfEOF" -> ThrowIfEOF(buf, idx, result)

RunPattern(m, buf, k, idx, result) ==
    IF k > Len(m.steps)
    THEN [err |-> NoError, ret |-> m.ret, index |-> idx, result |-> result]
    ELSE AfterCall(m, buf, k, CallPrimitive(m.steps[k], buf, idx, result))

\* The array match returns, from how the routine ended: [pattern's return,
\* result || null, index]; value <<>> is the null of `this.#result || null`.
MatchResult(r) ==
    [err |-> r.err, ret |-> r.ret, value |-> r.result, length |-> r.index]

\* #Matcher.match
Match(m, input) == MatchResult(RunPattern(m, input, 1, 0, <<>>))

\* ----------------------------------------------------------------- RegExp
RECURSIVE PrefixLen(_, _)
\* The length of the longest prefix of input made of characters of set.
PrefixLen(input, set) ==
    IF input = <<>> \/ input[1] \notin set THEN 0
    ELSE 1 + PrefixLen(Tail(input), set)

RECURSIVE SkipTo(_, _)
\* The number of leading characters of input outside set.
SkipTo(input, set) ==
    IF input = <<>> \/ input[1] \in set THEN 0
    ELSE 1 + SkipTo(Tail(input), set)

\* INPUT.match(re)?.[0] ?? null, for the RegExps of the input set; found
\* tells a match (possibly of the empty string) from null.
RegExpMatchAt(m, rest, n) ==
    IF n = 0 /\ ~m.star
    THEN [found |-> FALSE, value |-> <<>>]
    ELSE [found |-> TRUE, value |-> SubSeq(rest, 1, n)]

RegExpMatchFrom(m, rest) ==
    RegExpMatchAt(m, rest,
                  PrefixLen(IF m.one /\ rest # <<>> THEN <<rest[1]>> ELSE rest, m.set))

RegExpMatch(m, input) ==
    RegExpMatchFrom(m, SubSeq(input,
                              (IF m.anchored \/ m.star THEN 0 ELSE SkipTo(input, m.set)) + 1,
                              Len(input)))

\* -------------------------------------------------------------- tokenizer
\* #TokenizerClass.#isEOF
TokenizerIsEOF(buf, idx) == idx >= Len(buf)

\* FromMatchResults taking the length the routine has consumed whatever it
\* returned.
FromMatchResultsKeepLength(MatchResults) ==
    IF MatchResults.err # NoError
    THEN [err |-> MatchResults.err, tokenValue |-> <<>>, tokenLength |-> 0]
    ELSE IF MatchResults.ret \notin {"false", "null"}
    THEN [err |-> NoError, tokenValue |-> MatchResults.value,
          tokenLength |-> MatchResults.length]
    ELSE [err |-> NoError, tokenValue |-> <<>>, tokenLength |-> MatchResults.length]

\* The body of the for loop of #readToken up to the `continue` test:
\* tokenValue (<<>> when null or '') and tokenLength of one TokenType.
FromMatchResults(MatchResults) ==
    IF MatchResults.err # NoError
    THEN [err |-> MatchResults.err, tokenValue |-> <<>>, tokenLength |-> 0]
    ELSE IF MatchResults.ret \notin {"false", "null"}
    THEN [err |-> NoError, tokenValue |-> MatchResults.value,
          tokenLength |-> MatchResults.length]
    ELSE [err |-> NoError, tokenValue |-> <<>>, tokenLength |-> 0]

FromRegExp(r) == [err |-> NoError, tokenValue |-> r.value, tokenLength |-> Len(r.value)]

ApplyMatcher(TokenType, INPUT) ==
    IF TokenType.matcher.kind = "function"
    THEN FromMatchResults(Match(TokenType.matcher, INPUT))
    ELSE IF TokenType.matcher.kind = "RegExp"
    THEN FromRegExp(RegExpMatch(TokenType.matcher, INPUT))
    ELSE [err |-> "Unexpected Matcher", tokenValue |-> <<>>, tokenLength |-> 0]

\* IsNoMatch with the bound off by one: a match of one character is skipped.
IsNoMatchBelowTwo(tokenValue, tokenLength) == tokenValue = <<>> \/ 2 > tokenLength

\* `if (!tokenValue && 1 > tokenLength) continue;`
IsNoMatch(tokenValue, tokenLength) == tokenValue = <<>> /\ 1 > tokenLength

\* IsDiscard without the test of the value.
IsDiscardByNameOnly(TokenType, tokenValue) == TokenType.name = NoName

\* `if (!TokenType.name || !tokenValue)`: the match is discarded.
IsDiscard(TokenType, tokenValue) == TokenType.name = NoName \/ tokenValue = <<>>

\* MakeToken without the copy of the hidden flag.
MakeTokenNeverHidden(TokenType, tokenValue) ==
    [type |-> TokenType.name, value |-> tokenValue, hidden |-> FALSE]

\* The Token object built by #readToken.
MakeToken(TokenType, tokenValue) ==
    [type |-> TokenType.name, value |-> tokenValue, hidden |-> TokenType.hidden]

\* #TokenizerClass.#readToken from the TokenType at position k of the
\* registry on. The result carries the token returned (Null for null), the
\* new #index, the error thrown if any, the registry position that made the
\* token (0 for none) and the log of the accepted matches: the position in
\* the source, the registry position chosen, the value and the length.
RECURSIVE ReadTokenFrom(_, _, _, _, _)

\* AcceptMatch calling #readToken again after every discard, at the end of
\* the source too.
AcceptMatchRecursing(buf, types, k, m, newIndex, newLog) ==
    IF IsDiscard(types[k], m.tokenValue)
    THEN ReadTokenFrom(buf, newIndex, types, 1, newLog)
    ELSE [err |-> NoError, tok |-> MakeToken(types[k], m.tokenValue),
          index |-> newIndex, def |-> k, log |-> newLog]

\* AcceptMatch going on, after a discard, with the TokenType that follows
\* the one that matched.
AcceptMatchFromNext(buf, types, k, m, newIndex, newLog) ==
    IF IsDiscard(types[k], m.tokenValue)
    THEN IF TokenizerIsEOF(buf, newIndex)
         THEN [err |-> NoError, tok |-> Null, index |-> newIndex, def |-> 0,
               log |-> newLog]
         ELSE ReadTokenFrom(buf, newIndex, types, k + 1, newLog)
    ELSE [err |-> NoError, tok |-> MakeToken(types[k], m.tokenValue),
          index |-> newIndex, def |-> k, log |-> newLog]

\* Lines 88 to 101: the match m of the TokenType at k is accepted, #index
\* has become newIndex and the log newLog.
AcceptMatch(buf, types, k, m, newIndex, newLog) ==
    IF IsDiscard(types[k], m.tokenValue)
    THEN IF TokenizerIsEOF(buf, newIndex)
         THEN [err |-> NoError, tok |-> Null, index |-> newIndex, def |-> 0,
               log |-> newLog]
         ELSE ReadTokenFrom(buf, newIndex, types, 1, newLog)
    ELSE [err |-> NoError, tok |-> MakeToken(types[k], m.tokenValue),
          index |-> newIndex, def |-> k, log |-> newLog]

\* TryTokenType leaving the for loop at the first TokenType that does not
\* match.
TryTokenTypeNoNext(buf, idx, types, k, log, m) ==
    IF m.err # NoError
    THEN [err |-> m.err, tok |-> Null, index |-> idx, def |-> 0, log |-> log]
    ELSE IF IsNoMatch(m.tokenValue, m.tokenLength)
    THEN [err |-> ErrUndefinedToken, tok |-> Null, index |-> idx, def |-> 0,
          log |-> log]
    ELSE AcceptMatch(buf, types, k, m, idx + m.tokenLength,
                     Append(log, [pos |-> idx, def |-> k, value |-> m.tokenValue,
                                  length |-> m.tokenLength]))

\* One turn of the for loop, the matcher of the TokenType at k having
\* given m: its error leaves #readToken, a non-match goes to the next
\* TokenType, a match is accepted.
TryTokenType(buf, idx, types, k, log, m) ==
    IF m.err # NoError
    THEN [err |-> m.err, tok |-> Null, index |-> idx, def |-> 0, log |-> log]
    ELSE IF IsNoMatch(m.tokenValue, m.tokenLength)
    THEN ReadTokenFrom(buf, idx, types, k + 1, log)
    ELSE AcceptMatch(buf, types, k, m, idx + m.tokenLength,
                     Append(log, [pos |-> idx, def |-> k, value |-> m.tokenValue,
                                  length |-> m.tokenLength]))

\* ReadTokenFrom returning null, as at the end of the source, when no
\* TokenType has matched.
ReadTokenFromNoThrow(buf, idx, types, k, log) ==
    IF k > Len(types)
    THEN [err |-> NoError, tok |-> Null, index |-> idx, def |-> 0, log |-> log]
    ELSE TryTokenType(buf, idx, types, k, log,
                      ApplyMatcher(types[k], SubSeq(buf, idx + 1, Len(buf))))

ReadTokenFrom(buf, idx, types, k, log) ==
    IF k > Len(types)
    THEN [err |-> ErrUndefinedToken, tok |-> Null, index |-> idx, def |-> 0,
          log |-> log]
    ELSE TryTokenType(buf, idx, types, k, log,
                      ApplyMatcher(types[k], SubSeq(buf, idx + 1, Len(buf))))

ReadToken(buf, idx, types) == ReadTokenFrom(buf, idx, types, 1, <<>>)

\* #TokenizerClass.peekToken
PeekToken(lab, lai, offset) ==
    IF lai + offset + 1 \in 1..Len(lab)
    THEN lab[lai + offset + 1]
    ELSE Null

\* NextToken without the test of the end of the lookahead buffer.
NextTokenUnchecked(lab, lai) ==
    [tok |-> IF lai + 1 \in 1..Len(lab) THEN lab[lai + 1] ELSE Null,
     lookaheadIndex |-> lai + 1]

\* #TokenizerClass.nextToken: the token returned and the new #lookaheadIndex.
NextToken(lab, lai) ==
    IF lai >= Len(lab)
    THEN [tok |-> Null, lookaheadIndex |-> lai]
    ELSE [tok |-> lab[lai + 1],
          lookaheadIndex |-> lai + 1]

\* ----------------------------------------------------------------- facade
\* The do-while loop of Anatomize.peek.
RECURSIVE PeekLoop(_, _, _)
PeekLoop(lab, lai, offset) ==
    LET Token == PeekToken(lab, lai, offset)
    IN  IF Token.hidden
        THEN PeekLoop(lab, lai, offset + 1)
        ELSE Token

\* PeekResult without the loop over the hidden tokens.
PeekResultRaw(lab, lai, offset) == PeekToken(lab, lai, offset)

\* PeekResult looking from the read cursor whatever the offset.
PeekResultAtCursor(lab, lai, offset) ==
    LET Token == PeekLoop(lab, lai, 0)
    IN  IF Token.hidden THEN Null ELSE Token

\* Anatomize.peek after its mode check.
PeekResult(lab, lai, offset) ==
    LET Token == PeekLoop(lab, lai, offset)
    IN  IF Token.hidden THEN Null ELSE Token

\* ReadLoop passing over every hidden token, of the requested type or not.
RECURSIVE ReadLoopSkipHidden(_, _, _)
ReadLoopSkipHidden(lab, lai, tokenType) ==
    LET n == NextToken(lab, lai)
    IN  IF n.tok.hidden
        THEN ReadLoopSkipHidden(lab, n.lookaheadIndex, tokenType)
        ELSE n

\* ReadLoop taking one token only, hidden or not.
ReadLoopOnce(lab, lai, tokenType) == NextToken(lab, lai)

\* The do-while loop of Anatomize.read: the last token taken and the cursor.
RECURSIVE ReadLoop(_, _, _)
ReadLoop(lab, lai, tokenType) ==
    LET n == NextToken(lab, lai)
    IN  IF n.tok.hidden /\ n.tok.type # tokenType
        THEN ReadLoop(lab, n.lookaheadIndex, tokenType)
        ELSE n

\* ReadOutcome without the comparison of the token's type.
ReadOutcomeAnyType(n, tokenType) ==
    IF n.tok = Null
    THEN [err |-> ErrEndOfTokens, tok |-> Null, lookaheadIndex |-> n.lookaheadIndex]
    ELSE [err |-> NoError, tok |-> n.tok, lookaheadIndex |-> n.lookaheadIndex]

\* Anatomize.read after its mode check: the error thrown or the token.
ReadOutcome(n, tokenType) ==
    IF n.tok = Null
    THEN [err |-> ErrEndOfTokens, tok |-> Null, lookaheadIndex |-> n.lookaheadIndex]
    ELSE IF n.tok.type # tokenType
    THEN [err |-> ErrUnexpectedToken, tok |-> Null, lookaheadIndex |-> n.lookaheadIndex]
    ELSE [err |-> NoError, tok |-> n.tok, lookaheadIndex |-> n.lookaheadIndex]

ReadResult(lab, lai, tokenType) == ReadOutcome(ReadLoop(lab, lai, tokenType), tokenType)

\* ------------------------------------------------------------------ state
VARIABLES
    TokenTypes,       \* #Tokenizer.TokenTypes, the registry
    parsing,          \* Anatomize.#parsing
    buffer,           \* #TokenizerClass.#buffer, the source
    index,            \* #TokenizerClass.#index
    lookaheadBuffer,  \* #TokenizerClass.#lookaheadBuffer
    lookaheadIndex,   \* #TokenizerClass.#lookaheadIndex
    pc,               \* where the running parse call is: "idle" (none),
                      \* "tokenizing" (in initialize), "grammar" (in #main)
    last,             \* the last call made on the facade and how it ended,
                      \* with the error #main raised when it ends a parse
    producer,         \* per lookahead entry, the registry position it is from
    matchLog,         \* the matches accepted since the last initialize
    main              \* the grammar function of the guide: where it is (at),
                      \* the StatementList of Program and the Content of
                      \* Statement; not used by an unspecified grammar

vars == <<TokenTypes, parsing, buffer, index, lookaheadBuffer, lookaheadIndex,
          pc, last, producer, matchLog, main>>

tokenizer == <<buffer, index, lookaheadBuffer, lookaheadIndex, producer, matchLog>>

\* The registrations a caller may make: name and matcher.
Whitespace == [name |-> NoName, matcher |-> RegExp({" "}, FALSE, TRUE)]
Number == [name |-> "NUMBER", matcher |-> RegExp({"1"}, FALSE, TRUE)]
Newline == [name |-> ";", matcher |-> RegExp({"n"}, FALSE, TRUE)]
\* In the manner of the STRING routine of the guide: returns false unless
\* the input starts with a blank, omits it, then reads a digit (value "1",
\* length 2) and raises its own error when what follows is no digit.
Arg == [name |-> "ARG",
        matcher |-> Routine(<<Step("omit", OneChar(" "), "false"),
                              Step("read", OneChar("1"), "throw")>>,
                            "undefined")]
\* omits a blank and reads nothing: a named match with no value
Skip == [name |-> "SKIP",
         matcher |-> Routine(<<Step("omit", OneChar(" "), "null")>>, "undefined")]
Bad == [name |-> "BAD", matcher |-> BadMatcher]

VisibleRegistrations == {Whitespace, Number, Arg, Skip, Bad}
HiddenRegistrations == {Newline, Bad}

TokenNames == {"NUMBER", ";", "ARG"}

\* A node of the tree the guide's grammar builds: NumLiteral or StrLiteral.
NoContent == [type |-> "", num |-> 0, str |-> <<>>]

\* No grammar function of the guide is running.
NoMain == [at |-> "", StatementList |-> <<>>, Content |-> NoContent]

Call(op, err, tok, bool) ==
    [op |-> op, err |-> err, tok |-> tok, bool |-> bool, raised |-> NoError]

Init ==
    /\ TokenTypes = <<>>
    /\ parsing = FALSE
    /\ buffer = <<>>
    /\ index = 0
    /\ lookaheadBuffer = <<>>
    /\ lookaheadIndex = 0
    /\ pc = "idle"
    /\ last = Call("new", NoError, Null, FALSE)
    /\ producer = <<>>
    /\ matchLog = <<>>
    /\ main = NoMain

\* ----------------------------------------------------------- registration
\* #errorIfParsing with its test lost.
ErrorIfParsingNever(p) == FALSE

\* #errorIfParsing
ErrorIfParsing(p) == p

\* #errorIfNotParsing
ErrorIfNotParsing(p) == ~p

\* `typeof matcher !== 'function' && !(matcher instanceof RegExp)`
IsBadMatcher(matcher) == matcher.kind \notin {"function", "RegExp"}

\* AddTokenType without the call of #errorIfParsing.
AddTokenTypeUnchecked(op, name, matcher, hidden) ==
    /\ IF IsBadMatcher(matcher)
       THEN /\ last' = Call(op, ErrMatcherType, Null, FALSE)
            /\ UNCHANGED TokenTypes
       ELSE /\ Len(TokenTypes) < MaxTypes
            /\ TokenTypes' = Append(TokenTypes,
                   [name |-> name, matcher |-> matcher, hidden |-> hidden])
            /\ last' = Call(op, NoError, Null, FALSE)
    /\ UNCHANGED <<parsing, pc, tokenizer, main>>

\* #addTokenType, called by method op
AddTokenType(op, name, matcher, hidden) ==
    /\ IF ErrorIfParsing(parsing)
       THEN /\ last' = Call(op, ErrWhilstParsing, Null, FALSE)
            /\ UNCHANGED TokenTypes
       ELSE IF IsBadMatcher(matcher)
       THEN /\ last' = Call(op, ErrMatcherType, Null, FALSE)
            /\ UNCHANGED TokenTypes
       ELSE /\ Len(TokenTypes) < MaxTypes
            /\ TokenTypes' = Append(TokenTypes,
                   [name |-> name, matcher |-> matcher, hidden |-> hidden])
            /\ last' = Call(op, NoError, Null, FALSE)
    /\ UNCHANGED <<parsing, pc, tokenizer, main>>

registerToken(name, matcher) == AddTokenType("registerToken", name, matcher, FALSE)

\* registerHiddenToken handing on false as registerToken does.
registerHiddenTokenVisible(name, matcher) ==
    AddTokenType("registerHiddenToken", name, matcher, FALSE)

registerHiddenToken(name, matcher) ==
    AddTokenType("registerHiddenToken", name, matcher, TRUE)

\* ---------------------------------------------------------------- parsing
\* parse making the resets of initialize before its mode check.
parseInitializeFirst(source) ==
    /\ buffer' = source
    /\ index' = 0
    /\ lookaheadBuffer' = <<>>
    /\ lookaheadIndex' = 0
    /\ producer' = <<>>
    /\ matchLog' = <<>>
    /\ IF ErrorIfParsing(parsing)
       THEN /\ last' = Call("parse", ErrWhilstParsing, Null, FALSE)
            /\ UNCHANGED <<parsing, pc>>
       ELSE /\ pc = "idle"
            /\ parsing' = TRUE
            /\ pc' = "tokenizing"
            /\ last' = Call("initialize", NoError, Null, FALSE)
    /\ UNCHANGED <<TokenTypes, main>>

\* Anatomize.parse up to the start of initialize's loop: the mode check,
\* `this.#parsing = true` and the resets of initialize.
parse(source) ==
    IF ErrorIfParsing(parsing)
    THEN /\ last' = Call("parse", ErrWhilstParsing, Null, FALSE)
         /\ UNCHANGED <<TokenTypes, parsing, pc, tokenizer, main>>
    ELSE /\ pc = "idle"
         /\ parsing' = TRUE
         /\ buffer' = source
         /\ index' = 0
         /\ lookaheadBuffer' = <<>>
         /\ lookaheadIndex' = 0
         /\ producer' = <<>>
         /\ matchLog' = <<>>
         /\ pc' = "tokenizing"
         /\ last' = Call("initialize", NoError, Null, FALSE)
         /\ UNCHANGED <<TokenTypes, main>>

\* PushToken pushing nothing when #readToken returns null.
PushTokenNotNull(r) ==
    /\ index' = r.index
    /\ matchLog' = matchLog \o r.log
    /\ IF r.err # NoError
       THEN /\ pc' = "idle"
            /\ last' = Call("parse", r.err, Null, FALSE)
            /\ UNCHANGED <<lookaheadBuffer, producer>>
       ELSE /\ lookaheadBuffer' = IF r.tok = Null THEN lookaheadBuffer
                                  ELSE Append(lookaheadBuffer, r.tok)
            /\ producer' = IF r.tok = Null THEN producer
                           ELSE Append(producer, r.def)
            /\ last' = Call("readToken", NoError, r.tok, FALSE)
            /\ UNCHANGED pc

\* One turn of the loop of initialize: push(#readToken()). An error thrown
\* by #readToken leaves initialize and parse, which has no handler around
\* the call of initialize.
PushToken(r) ==
    /\ index' = r.index
    /\ matchLog' = matchLog \o r.log
    /\ IF r.err # NoError
       THEN /\ pc' = "idle"
            /\ last' = Call("parse", r.err, Null, FALSE)
            /\ UNCHANGED <<lookaheadBuffer, producer>>
       ELSE /\ lookaheadBuffer' = Append(lookaheadBuffer, r.tok)
            /\ producer' = Append(producer, r.def)
            /\ last' = Call("readToken", NoError, r.tok, FALSE)
            /\ UNCHANGED pc

InitializeLoop ==
    /\ pc = "tokenizing"
    /\ ~TokenizerIsEOF(buffer, index)
    /\ PushToken(ReadToken(buffer, index, TokenTypes))
    /\ UNCHANGED <<TokenTypes, parsing, buffer, lookaheadIndex, main>>

\* parse calling #main before the loop of initialize has ended.
MainCallEarly ==
    /\ pc = "tokenizing"
    /\ pc' = "grammar"
    /\ last' = Call("main", NoError, Null, FALSE)
    /\ UNCHANGED <<TokenTypes, parsing, tokenizer, main>>

\* The loop of initialize ends and parse calls #main.
MainCall ==
    /\ pc = "tokenizing"
    /\ TokenizerIsEOF(buffer, index)
    /\ pc' = "grammar"
    /\ last' = Call("main", NoError, Null, FALSE)
    /\ UNCHANGED <<TokenTypes, parsing, tokenizer, main>>

\* ParseExit without the finally block, as in v1.0.2.
ParseExitNoFinally(e) == [parsing |-> e # NoError, err |-> e]

\* `try { return this.#main(); } finally { this.#parsing = false; }`:
\* the flag and what parse ends with when #main ended with e.
ParseExit(e) == [parsing |-> FALSE, err |-> e]

\* #main returns.
MainReturn ==
    /\ pc = "grammar"
    /\ pc' = "idle"
    /\ parsing' = ParseExit(NoError).parsing
    /\ last' = Call("parse", ParseExit(NoError).err, Null, FALSE)
    /\ UNCHANGED <<TokenTypes, tokenizer, main>>

\* #main raises e: an error of its own or the one the last call threw.
MainThrow(e) ==
    /\ pc = "grammar"
    /\ e = UserError \/ (e = last.err /\ e # NoError)
    /\ pc' = "idle"
    /\ parsing' = ParseExit(e).parsing
    /\ last' = [Call("parse", ParseExit(e).err, Null, FALSE) EXCEPT !.raised = e]
    /\ UNCHANGED <<TokenTypes, tokenizer, main>>

\* ----------------------------------------------------------- token access
\* peek moving the read cursor to the token it returns.
peekAdvancing(offset) ==
    /\ IF ErrorIfNotParsing(parsing)
       THEN /\ last' = Call("peek", ErrNotParsing, Null, FALSE)
            /\ UNCHANGED lookaheadIndex
       ELSE /\ last' = Call("peek", NoError,
                            PeekResult(lookaheadBuffer, lookaheadIndex, offset), FALSE)
            /\ lookaheadIndex' =
                   IF lookaheadIndex + offset <= Len(lookaheadBuffer)
                   THEN lookaheadIndex + offset
                   ELSE lookaheadIndex
    /\ UNCHANGED <<TokenTypes, parsing, pc, buffer, index,
                   lookaheadBuffer, producer, matchLog, main>>

\* Anatomize.peek
peek(offset) ==
    /\ IF ErrorIfNotParsing(parsing)
       THEN last' = Call("peek", ErrNotParsing, Null, FALSE)
       ELSE last' = Call("peek", NoError,
                         PeekResult(lookaheadBuffer, lookaheadIndex, offset), FALSE)
    /\ UNCHANGED <<TokenTypes, parsing, pc, tokenizer, main>>

\* isEOF testing the end of the lookahead buffer instead of peeking.
isEOFOfBuffer ==
    /\ IF ErrorIfNotParsing(parsing)
       THEN last' = Call("isEOF", ErrNotParsing, Null, FALSE)
       ELSE last' = Call("isEOF", NoError, Null,
                         lookaheadIndex >= Len(lookaheadBuffer))
    /\ UNCHANGED <<TokenTypes, parsing, pc, tokenizer, main>>

\* Anatomize.isEOF
isEOF ==
    /\ IF ErrorIfNotParsing(parsing)
       THEN last' = Call("isEOF", ErrNotParsing, Null, FALSE)
       ELSE last' = Call("isEOF", NoError, Null,
                         PeekResult(lookaheadBuffer, lookaheadIndex, 0) = Null)
    /\ UNCHANGED <<TokenTypes, parsing, pc, tokenizer, main>>

\* Anatomize.isPeekType: the mode check is the one of peek.
isPeekType(tokenType, offset) ==
    /\ IF ErrorIfNotParsing(parsing)
       THEN last' = Call("isPeekType", ErrNotParsing, Null, FALSE)
       ELSE last' = Call("isPeekType", NoError, Null,
                         PeekResult(lookaheadBuffer, lookaheadIndex, offset).type
                             = tokenType)
    /\ UNCHANGED <<TokenTypes, parsing, pc, tokenizer, main>>

\* Consume putting the cursor back when read fails.
ConsumeRollingBack(r) ==
    /\ last' = Call("read", r.err, r.tok, FALSE)
    /\ lookaheadIndex' = IF r.err = NoError THEN r.lookaheadIndex ELSE lookaheadIndex

\* read ends as r: the cursor is where the loop left it.
Consume(r) ==
    /\ last' = Call("read", r.err, r.tok, FALSE)
    /\ lookaheadIndex' = r.lookaheadIndex

\* read failing with the end of input error whenever isEOF is true.
readFailingAtEOF(tokenType) ==
    /\ IF ErrorIfNotParsing(parsing)
       THEN /\ last' = Call("read", ErrNotParsing, Null, FALSE)
            /\ UNCHANGED lookaheadIndex
       ELSE IF PeekResult(lookaheadBuffer, lookaheadIndex, 0) = Null
       THEN /\ last' = Call("read", ErrEndOfTokens, Null, FALSE)
            /\ lookaheadIndex' = Len(lookaheadBuffer)
       ELSE Consume(ReadResult(lookaheadBuffer, lookaheadIndex, tokenType))
    /\ UNCHANGED <<TokenTypes, parsing, pc, buffer, index,
                   lookaheadBuffer, producer, matchLog, main>>

\* Anatomize.read
read(tokenType) ==
    /\ IF ErrorIfNotParsing(parsing)
       THEN /\ last' = Call("read", ErrNotParsing, Null, FALSE)
            /\ UNCHANGED lookaheadIndex
       ELSE Consume(ReadResult(lookaheadBuffer, lookaheadIndex, tokenType))
    /\ UNCHANGED <<TokenTypes, parsing, pc, buffer, index,
                   lookaheadBuffer, producer, matchLog, main>>

\* ---------------------------------------------------------- specification
\* The methods of the facade are called from outside a parse call, from the
\* grammar function and, between two turns of initialize's loop, from a
\* matcher routine: every call is taken in every state.
Next ==
    \/ \E r \in VisibleRegistrations : registerToken(r.name, r.matcher)
    \/ \E r \in HiddenRegistrations : registerHiddenToken(r.name, r.matcher)
    \/ \E source \in Sources : parse(source)
    \/ InitializeLoop
    \/ MainCall
    \/ MainReturn
    \/ \E e \in {UserError, ErrNotParsing, ErrWhilstParsing, ErrMatcherType,
                 ErrEndOfTokens, ErrUnexpectedToken} : MainThrow(e)
    \/ \E offset \in 0..MaxOffset : peek(offset)
    \/ isEOF
    \/ \E tokenType \in TokenNames, offset \in 0..MaxOffset :
           isPeekType(tokenType, offset)
    \/ \E tokenType \in TokenNames : read(tokenType)

Spec == Init /\ [][Next]_vars

\* ------------------------------------------------------ tokenization alone
\* Matchers beyond those a caller registers in Spec: a RegExp that matches
\* the empty string, /^ */, and a routine that returns false before it has
\* consumed anything (no blank ahead) and null after it has read a blank (no
\* digit after it).
Blanks == [name |-> "BLANKS", matcher |-> RegExp({" "}, TRUE, TRUE)]
Pair == [name |-> "PAIR",
         matcher |-> Routine(<<Step("read", OneChar(" "), "false"),
                               Step("read", OneChar("1"), "null")>>,
                             "undefined")]

\* A routine that goes on after a call that returned null: it omits a blank
\* if there is one and then reads a digit, returning false without one.
Opt == [name |-> "OPT",
        matcher |-> Routine(<<Step("omit", OneChar(" "), "ignore"),
                              Step("read", OneChar("1"), "false")>>,
                            "undefined")]

\* A RegExp without the start-of-string anchor, /1+/: String.prototype.match
\* finds it anywhere in the input.
Digits == [name |-> "DIGITS", matcher |-> RegExp({"1"}, FALSE, FALSE)]

TokenizerPool == {Whitespace, Number, Newline, Arg, Skip, Blanks, Pair, Opt, Digits}

\* The registries the registrations of the pool lead to.
Registries ==
    SeqsUpTo({[name |-> r.name, matcher |-> r.matcher, hidden |-> FALSE] :
                 r \in TokenizerPool}, MaxTypes)

\* A parser after its registrations.
TokenizerInit ==
    /\ TokenTypes \in Registries
    /\ parsing = FALSE
    /\ buffer = <<>>
    /\ index = 0
    /\ lookaheadBuffer = <<>>
    /\ lookaheadIndex = 0
    /\ pc = "idle"
    /\ last = Call("new", NoError, Null, FALSE)
    /\ producer = <<>>
    /\ matchLog = <<>>
    /\ main = NoMain

\* The first call of parse on the parser.
FirstParse(source) == last.op = "new" /\ parse(source)

\* One parse call up to the call of the grammar function.
TokenizerNext ==
    \/ \E source \in Sources : FirstParse(source)
    \/ InitializeLoop
    \/ MainCall

SpecTokenizer == TokenizerInit /\ [][TokenizerNext]_vars

\* ------------------------------------------------- the parser of the guide
\* MyParser.registerToken(null, /^[^\S\n]+/) and the four registrations that
\* follow it: the registry of the guide's parser.
String ==
    [name |-> "STRING",
     matcher |-> Routine(<<Step("peek", [arr |-> TRUE, items |-> <<"\"", "'">>],
                                "undefined"),
                           Step("omit", NoConstraint, "ignore"),
                           Step("readToCharAt0", NoConstraint, "ignore"),
                           Step("throwIfEOF", NoConstraint, "ignore"),
                           Step("omit", NoConstraint, "ignore")>>,
                         "undefined")]

Semicolon == [name |-> ";", matcher |-> RegExpOne({";"})]

GuideTokenTypes ==
    <<[name |-> Whitespace.name, matcher |-> Whitespace.matcher, hidden |-> FALSE],
      [name |-> Number.name, matcher |-> Number.matcher, hidden |-> FALSE],
      [name |-> String.name, matcher |-> String.matcher, hidden |-> FALSE],
      [name |-> Semicolon.name, matcher |-> Semicolon.matcher, hidden |-> FALSE],
      [name |-> Newline.name, matcher |-> Newline.matcher, hidden |-> TRUE]>>

\* Number(Token.value) for a value made of digits.
RECURSIVE NumberOf(_)
NumberOf(value) ==
    IF value = <<>> THEN 0
    ELSE 10 * NumberOf(SubSeq(value, 1, Len(value) - 1))
            + (IF value[Len(value)] = "1" THEN 1 ELSE 0)

\* The grammar function of the guide is at the statement named.
Running(at) == pc = "grammar" /\ last.op # "main" /\ main.at = at

\* StatementList.push(Statement()), Statement returning its Content.
Push == Append(main.StatementList, main.Content)

\* #main calls Program: `const StatementList = []`.
Program ==
    /\ pc = "grammar"
    /\ last.op = "main"
    /\ main' = [at |-> "while", StatementList |-> <<>>, Content |-> NoContent]
    /\ last' = Call("Program", NoError, Null, FALSE)
    /\ UNCHANGED <<TokenTypes, parsing, pc, tokenizer>>

\* `while (!MyParser.isEOF())` of Program: Statement and so Literal is
\* called, or Program returns.
ProgramWhile ==
    /\ Running("while")
    /\ last' = Call("isEOF", NoError, Null,
                    PeekResult(lookaheadBuffer, lookaheadIndex, 0) = Null)
    /\ main' = [main EXCEPT !.at = IF last'.bool THEN "return" ELSE "Literal"]
    /\ UNCHANGED <<TokenTypes, parsing, pc, tokenizer>>

\* `switch (MyParser.peek().type)` of Literal; with no case taken (or no
\* token peeked) Literal throws.
Literal ==
    /\ Running("Literal")
    /\ last' = Call("peek", NoError,
                    PeekResult(lookaheadBuffer, lookaheadIndex, 0), FALSE)
    /\ main' = [main EXCEPT !.at = CASE last'.tok.type = "NUMBER" -> "NumLiteral"
                                     [] last'.tok.type = "STRING" -> "StrLiteral"
                                     [] OTHER -> "throw"]
    /\ UNCHANGED <<TokenTypes, parsing, pc, tokenizer>>

\* NumLiteral: `MyParser.read('NUMBER')` and the node returned.
NumLiteral ==
    /\ Running("NumLiteral")
    /\ Consume(ReadResult(lookaheadBuffer, lookaheadIndex, "NUMBER"))
    /\ main' = IF last'.err # NoError
               THEN [main EXCEPT !.at = "throw"]
               ELSE [main EXCEPT !.at = "terminateStatement",
                                 !.Content = [type |-> "NumLiteral",
                                              num |-> NumberOf(last'.tok.value),
                                              str |-> <<>>]]
    /\ UNCHANGED <<TokenTypes, parsing, pc, buffer, index,
                   lookaheadBuffer, producer, matchLog>>

\* StrLiteral: `MyParser.read('STRING')` and the node returned.
StrLiteral ==
    /\ Running("StrLiteral")
    /\ Consume(ReadResult(lookaheadBuffer, lookaheadIndex, "STRING"))
    /\ main' = IF last'.err # NoError
               THEN [main EXCEPT !.at = "throw"]
               ELSE [main EXCEPT !.at = "terminateStatement",
                                 !.Content = [type |-> "StrLiteral",
                                              num |-> 0,
                                              str |-> last'.tok.value]]
    /\ UNCHANGED <<TokenTypes, parsing, pc, buffer, index,
                   lookaheadBuffer, producer, matchLog>>

\* `if (MyParser.isEOF()) return;` of terminateStatement: on the return
\* Statement returns its Content, which Program pushes.
terminateStatement ==
    /\ Running("terminateStatement")
    /\ last' = Call("isEOF", NoError, Null,
                    PeekResult(lookaheadBuffer, lookaheadIndex, 0) = Null)
    /\ main' = IF last'.bool
               THEN [main EXCEPT !.at = "while", !.StatementList = Push]
               ELSE [main EXCEPT !.at = "do"]
    /\ UNCHANGED <<TokenTypes, parsing, pc, tokenizer>>

\* `do { MyParser.read(';'); }` of terminateStatement.
terminateDo ==
    /\ Running("do")
    /\ Consume(ReadResult(lookaheadBuffer, lookaheadIndex, ";"))
    /\ main' = [main EXCEPT !.at = IF last'.err # NoError THEN "throw" ELSE "doWhile"]
    /\ UNCHANGED <<TokenTypes, parsing, pc, buffer, index,
                   lookaheadBuffer, producer, matchLog>>

\* `while (MyParser.isPeekType(';'))` of terminateStatement.
terminateDoWhile ==
    /\ Running("doWhile")
    /\ last' = Call("isPeekType", NoError, Null,
                    PeekResult(lookaheadBuffer, lookaheadIndex, 0).type = ";")
    /\ main' = IF last'.bool
               THEN [main EXCEPT !.at = "do"]
               ELSE [main EXCEPT !.at = "while", !.StatementList = Push]
    /\ UNCHANGED <<TokenTypes, parsing, pc, tokenizer>>

\* `return StatementList;` of Program, and so of #main.
ProgramReturn == Running("return") /\ MainReturn

\* The error of read or the one of Literal leaves #main.
ProgramThrow ==
    /\ Running("throw")
    /\ MainThrow(IF last.err # NoError THEN last.err ELSE UserError)

\* The parser of the guide, its registrations made.
GuideInit ==
    /\ TokenTypes = GuideTokenTypes
    /\ parsing = FALSE
    /\ buffer = <<>>
    /\ index = 0
    /\ lookaheadBuffer = <<>>
    /\ lookaheadIndex = 0
    /\ pc = "idle"
    /\ last = Call("new", NoError, Null, FALSE)
    /\ producer = <<>>
    /\ matchLog = <<>>
    /\ main = NoMain

\* The first call of parse on the parser of the guide.
GuideParse(source) == last.op = "new" /\ parse(source)

GuideNext ==
    \/ \E source \in GuideSources : GuideParse(source)
    \/ InitializeLoop
    \/ MainCall
    \/ Program
    \/ ProgramWhile
    \/ Literal
    \/ NumLiteral
    \/ StrLiteral
    \/ terminateStatement
    \/ terminateDo
    \/ terminateDoWhile
    \/ ProgramReturn
    \/ ProgramThrow

SpecGuide == GuideInit /\ [][GuideNext]_vars

\* ------------------------------------------- token access on hidden tokens
\* A hidden type registered under the name of a visible one: blanks kept as
\* hidden tokens of type NUMBER.
HiddenNumber == [name |-> "NUMBER", matcher |-> RegExp({" "}, FALSE, TRUE)]

ReaderVisible == {Whitespace, Number}
ReaderHidden == {Newline, HiddenNumber}

\* The registries registerToken and registerHiddenToken lead to from these.
ReaderRegistries ==
    SeqsUpTo({[name |-> r.name, matcher |-> r.matcher, hidden |-> FALSE] :
                 r \in ReaderVisible}
             \cup {[name |-> r.name, matcher |-> r.matcher, hidden |-> TRUE] :
                      r \in ReaderHidden}, MaxTypes)

\* A parser after its registrations.
ReaderInit ==
    /\ TokenTypes \in ReaderRegistries
    /\ parsing = FALSE
    /\ buffer = <<>>
    /\ index = 0
    /\ lookaheadBuffer = <<>>
    /\ lookaheadIndex = 0
    /\ pc = "idle"
    /\ last = Call("new", NoError, Null, FALSE)
    /\ producer = <<>>
    /\ matchLog = <<>>
    /\ main = NoMain

\* One parse call; peek, isEOF and read are called in any order and, as in
\* Spec, in every state.
ReaderNext ==
    \/ \E source \in Sources : FirstParse(source)
    \/ InitializeLoop
    \/ MainCall
    \/ \E offset \in 0..MaxOffset : peek(offset)
    \/ isEOF
    \/ \E tokenType \in TokenNames : read(tokenType)
    \/ MainReturn

SpecReader == ReaderInit /\ [][ReaderNext]_vars

\* ------------------------------------------------------ the read of v1.0.0
\* HistoricalReadLoop going on past every hidden token while a visible one
\* is left, of the requested type or not.
RECURSIVE HistoricalReadLoopAnyHidden(_, _, _)
HistoricalReadLoopAnyHidden(lab, lai, tokenType) ==
    LET n == NextToken(lab, lai)
    IN  IF /\ PeekResult(lab, n.lookaheadIndex, 0) # Null
           /\ n.tok.hidden
        THEN HistoricalReadLoopAnyHidden(lab, n.lookaheadIndex, tokenType)
        ELSE n

\* The do-while loop of read in v1.0.0: its guard tests isEOF, that is
\* !peek(), after the token was taken and before the two tests of the
\* canonical loop.
RECURSIVE HistoricalReadLoop(_, _, _)
HistoricalReadLoop(lab, lai, tokenType) ==
    LET n == NextToken(lab, lai)
    IN  IF /\ PeekResult(lab, n.lookaheadIndex, 0) # Null
           /\ n.tok.hidden
           /\ n.tok.type # tokenType
        THEN HistoricalReadLoop(lab, n.lookaheadIndex, tokenType)
        ELSE n

\* read of v1.0.0 after its mode check: the two tests after the loop are
\* those of the canonical read.
HistoricalReadResult(lab, lai, tokenType) ==
    ReadOutcome(HistoricalReadLoop(lab, lai, tokenType), tokenType)

\* Anatomize.read of v1.0.0, on the tokenizer of the canonical version.
readHistorical(tokenType) ==
    /\ IF ErrorIfNotParsing(parsing)
       THEN /\ last' = Call("read v1.0.0", ErrNotParsing, Null, FALSE)
            /\ UNCHANGED lookaheadIndex
       ELSE LET r == HistoricalReadResult(lookaheadBuffer, lookaheadIndex, tokenType)
            IN  /\ last' = Call("read v1.0.0", r.err, r.tok, FALSE)
                /\ lookaheadIndex' = r.lookaheadIndex
    /\ UNCHANGED <<TokenTypes, parsing, pc, buffer, index,
                   lookaheadBuffer, producer, matchLog, main>>

\* One parse call during which tokens are read by either version of read.
VersionsNext ==
    \/ \E source \in Sources : FirstParse(source)
    \/ InitializeLoop
    \/ MainCall
    \/ \E offset \in 0..MaxOffset : peek(offset)
    \/ isEOF
    \/ \E tokenType \in TokenNames : read(tokenType)
    \/ \E tokenType \in TokenNames : readHistorical(tokenType)
    \/ MainReturn

SpecVersions == ReaderInit /\ [][VersionsNext]_vars

\* ----------------------------------------------------------------- claims
AccessOps == {"peek", "read", "isEOF", "isPeekType"}

\* C1: once a parse call has exited and none is running, by a return or by
\* any failure, the parsing flag is false.
C1_FlagResetOnEveryExit == (pc = "idle" /\ last.op = "parse") => ~parsing

\* C2: an error raised by the grammar function leaves parse unchanged, with
\* the parsing flag false, so that the next parse call is accepted.
C2_GrammarErrorPropagates ==
    (pc = "idle" /\ last.op = "parse" /\ last.raised # NoError)
        => (last.err = last.raised /\ ~parsing /\ ~ErrorIfParsing(parsing))

C2_Witness ==
    pc = "idle" /\ last.op = "parse" /\ last.raised = ErrUnexpectedToken

\* C3: while no parse call is running, peek, read, isEOF and isPeekType fail
\* with the mode error and return no token.
C3_AccessOutsideParseFails ==
    (pc = "idle" /\ last.op \in AccessOps)
        => (last.err = ErrNotParsing /\ last.tok = Null)

\* C4: the parsing flag is true only while the grammar function runs; it is
\* false while initialize runs and when no parse call is running.
C4_FlagOnlyInGrammar == parsing => pc = "grammar"

\* C5: a parse call made while the parsing flag is true fails with the mode
\* error and starts no tokenization: the tokenizer is left as it was. (A
\* step is a parse call of some source exactly when it is one of the source
\* the tokenizer holds after it.)
C5_NoReentrantParse ==
    [][(parsing /\ parse(buffer'))
          => (/\ last'.op = "parse"
              /\ last'.err = ErrWhilstParsing
              /\ UNCHANGED <<TokenTypes, parsing, pc, tokenizer>>)]_vars

C5_Witness ==
    /\ pc = "grammar"
    /\ last.op = "parse"
    /\ last.err = ErrWhilstParsing
    /\ lookaheadBuffer # <<>>

\* C6: the registry never changes while the parsing flag is true, and a
\* registration made then fails with the error of #errorIfParsing.
C6_RegistryFrozenWhileParsing ==
    [][parsing =>
          /\ TokenTypes' = TokenTypes
          /\ last'.op \in {"registerToken", "registerHiddenToken"}
                 => last'.err = ErrWhilstParsing]_vars

C6_Witness ==
    /\ pc = "grammar"
    /\ last.op = "registerHiddenToken"
    /\ last.err = ErrWhilstParsing
    /\ Len(TokenTypes) = 1

\* A matcher reports a match: no error, and a length of at least one or a
\* value that is not empty.
ReportsMatch(TokenType, INPUT) ==
    LET m == ApplyMatcher(TokenType, INPUT)
    IN  m.err = NoError /\ (m.tokenLength >= 1 \/ m.tokenValue # <<>>)

ReportsNoMatch(TokenType, INPUT) ==
    LET m == ApplyMatcher(TokenType, INPUT)
    IN  m.err = NoError /\ m.tokenLength < 1 /\ m.tokenValue = <<>>

Remainder(pos) == SubSeq(buffer, pos + 1, Len(buffer))

\* C7: at every position reached by tokenization the token type chosen is
\* the earliest registered one whose matcher reports a match there.
C7_FirstMatchWins ==
    \A i \in 1..Len(matchLog) :
        LET e == matchLog[i]
        IN  /\ e.def \in 1..Len(TokenTypes)
            /\ ReportsMatch(TokenTypes[e.def], Remainder(e.pos))
            /\ \A j \in 1..(e.def - 1) :
                   ReportsNoMatch(TokenTypes[j], Remainder(e.pos))

\* The first type was chosen though the second one matches a longer prefix.
C7_Witness ==
    /\ Len(TokenTypes) >= 2
    /\ \E i \in 1..Len(matchLog) :
           /\ matchLog[i].def = 1
           /\ ReportsMatch(TokenTypes[2], Remainder(matchLog[i].pos))
           /\ ApplyMatcher(TokenTypes[2], Remainder(matchLog[i].pos)).tokenLength
                  > matchLog[i].length

\* Every match accepted so far was a discard: by a type with no name or
\* with an empty value.
OnlyDiscards ==
    \A i \in 1..Len(matchLog) :
        TokenTypes[matchLog[i].def].name = NoName \/ matchLog[i].value = <<>>

\* C8: when the whole source was consumed by discards only, tokenization has
\* not failed, the grammar sees no token (no entry of the lookahead buffer is
\* a token, read finds none) and isEOF is true.
C8_DiscardOnlySourceIsEmpty ==
    (index >= Len(buffer) /\ OnlyDiscards /\ parsing)
        => /\ ~(pc = "idle" /\ last.op = "parse")
           /\ \A i \in 1..Len(lookaheadBuffer) : lookaheadBuffer[i] = Null
           /\ last.op = "isEOF" => last.bool
           /\ last.op = "peek" => last.tok = Null
           /\ last.op = "read" => last.err = ErrEndOfTokens

C8_Witness ==
    /\ pc = "grammar"
    /\ Len(matchLog) >= 2
    /\ OnlyDiscards
    /\ \E i \in 1..Len(matchLog) : TokenTypes[matchLog[i].def].name # NoName
    /\ last.op = "isEOF"
    /\ last.bool
    /\ lookaheadIndex = 0

\* C9: every token of the lookahead buffer, and so every token peek or read
\* returns, has a value that is not empty, the name (not empty) of the token
\* type that made it as its type and that type's hidden flag; the entries of
\* the buffer never change once pushed.
C9_TokensWellFormed ==
    /\ [](/\ Len(producer) = Len(lookaheadBuffer)
          /\ \A i \in 1..Len(lookaheadBuffer) :
                 LET t == lookaheadBuffer[i]
                 IN  t # Null =>
                        /\ producer[i] \in 1..Len(TokenTypes)
                        /\ t.value # <<>>
                        /\ t.type # NoName
                        /\ t.type = TokenTypes[producer[i]].name
                        /\ t.hidden = TokenTypes[producer[i]].hidden
          /\ (last.op \in {"peek", "read"} /\ last.tok # Null)
                 => \E i \in 1..Len(lookaheadBuffer) : lookaheadBuffer[i] = last.tok)
    /\ [][\/ lookaheadBuffer' = <<>>
          \/ /\ Len(lookaheadBuffer') >= Len(lookaheadBuffer)
             /\ SubSeq(lookaheadBuffer', 1, Len(lookaheadBuffer)) = lookaheadBuffer]_vars

C9_Witness ==
    /\ last.op = "read"
    /\ last.tok # Null
    /\ last.tok.hidden
    /\ \E i \in 1..Len(lookaheadBuffer) :
           lookaheadBuffer[i] # Null /\ ~lookaheadBuffer[i].hidden

\* C10: peek never returns a hidden token, whatever the offset.
C10_PeekNeverHidden == last.op = "peek" => ~last.tok.hidden

\* peek returned a token that a hidden token precedes at the read cursor.
C10_Witness ==
    /\ last.op = "peek"
    /\ last.tok # Null
    /\ PeekToken(lookaheadBuffer, lookaheadIndex, 0).hidden

\* C11: a call of peek, isEOF or isPeekType, with any offset and in any
\* state, leaves the read cursor, the lookahead buffer, the registry and the
\* parsing flag as they were, and so what a read that follows would return.
C11_PeekingChangesNothing ==
    [][last'.op \in {"peek", "isEOF", "isPeekType"}
          => /\ UNCHANGED <<lookaheadIndex, lookaheadBuffer, TokenTypes, parsing>>
             /\ \A tokenType \in TokenNames :
                    ReadResult(lookaheadBuffer', lookaheadIndex', tokenType)
                        = ReadResult(lookaheadBuffer, lookaheadIndex, tokenType)]_vars

\* isPeekType looked past the token at the cursor and found its type there.
C11_Witness ==
    /\ pc = "grammar"
    /\ last.op = "isPeekType"
    /\ last.bool
    /\ lookaheadIndex = 0
    /\ PeekToken(lookaheadBuffer, lookaheadIndex, 0) # Null
    /\ PeekToken(lookaheadBuffer, lookaheadIndex, 1) # Null
    /\ PeekToken(lookaheadBuffer, lookaheadIndex, 0).type
           # PeekToken(lookaheadBuffer, lookaheadIndex, 1).type

\* C12: within one parse call the read cursor never decreases, stays within
\* 0 and the length of the lookahead buffer, and changes only in read. (The
\* step that starts a parse call, whose initialize sets the cursor to 0,
\* begins another invocation.)
C12_CursorMonotone ==
    /\ [](lookaheadIndex \in 0..Len(lookaheadBuffer))
    /\ [][last'.op # "initialize"
             => /\ lookaheadIndex' >= lookaheadIndex
                /\ lookaheadIndex' # lookaheadIndex => last'.op = "read"]_vars

\* read failed at the end of a buffer of two tokens it had read before.
C12_Witness ==
    /\ pc = "grammar"
    /\ last.op = "read"
    /\ last.err = ErrEndOfTokens
    /\ Len(lookaheadBuffer) = 2
    /\ lookaheadIndex = 2
    /\ \A i \in 1..2 : lookaheadBuffer[i] # Null

\* C13: when the token at the read cursor is hidden, read of its type
\* returns exactly that token and moves the cursor by one; read of another
\* type passes over it without an error of its own and ends as the same read
\* made one entry further would, so with the next token when that one has
\* the requested type.
C13_HiddenFallback ==
    [][(last'.op = "read" /\ parsing
            /\ PeekToken(lookaheadBuffer, lookaheadIndex, 0).hidden)
          => \A tokenType \in TokenNames :
                read(tokenType) =>
                   LET H == PeekToken(lookaheadBuffer, lookaheadIndex, 0)
                       following == PeekToken(lookaheadBuffer, lookaheadIndex, 1)
                       later == ReadResult(lookaheadBuffer, lookaheadIndex + 1,
                                           tokenType)
                   IN  IF tokenType = H.type
                       THEN /\ last'.err = NoError
                            /\ last'.tok = H
                            /\ lookaheadIndex' = lookaheadIndex + 1
                       ELSE /\ last'.err = later.err
                            /\ last'.tok = later.tok
                            /\ lookaheadIndex' = later.lookaheadIndex
                            /\ following.type = tokenType
                                   => /\ last'.err = NoError
                                      /\ last'.tok = following
                                      /\ lookaheadIndex' = lookaheadIndex + 2]_vars

\* read returned a visible token after passing over a hidden one.
C13_Witness ==
    /\ pc = "grammar"
    /\ last.op = "read"
    /\ last.err = NoError
    /\ ~last.tok.hidden
    /\ lookaheadIndex = 2
    /\ lookaheadBuffer[1].hidden
    /\ lookaheadBuffer[2] = last.tok

\* The entries from the read cursor on that stop read(tokenType): the tokens
\* that are not hidden or have the requested type.
ReadCandidates(tokenType) ==
    {j \in (lookaheadIndex + 1)..Len(lookaheadBuffer) :
        /\ lookaheadBuffer[j] # Null
        /\ ~lookaheadBuffer[j].hidden \/ lookaheadBuffer[j].type = tokenType}

First(S) == CHOOSE j \in S : \A k \in S : j <= k

\* C14: during a parse, read fails with the end of input error exactly when
\* no token from the cursor on is visible or of the requested type, fails
\* with the wrong token error exactly when the first such token has another
\* type, and else returns a token of the requested type.
C14_ReadFailureModes ==
    [][(last'.op = "read" /\ parsing)
          => \A tokenType \in TokenNames :
                read(tokenType) =>
                   LET c == ReadCandidates(tokenType)
                   IN  /\ last'.err = ErrEndOfTokens <=> c = {}
                       /\ last'.err = ErrUnexpectedToken
                              <=> (c # {} /\ lookaheadBuffer[First(c)].type # tokenType)
                       /\ last'.err \notin {ErrEndOfTokens, ErrUnexpectedToken}
                              => /\ last'.err = NoError
                                 /\ last'.tok # Null
                                 /\ last'.tok.type = tokenType]_vars

\* read passed over a hidden token and failed on the visible one after it.
C14_Witness ==
    /\ pc = "grammar"
    /\ last.op = "read"
    /\ last.err = ErrUnexpectedToken
    /\ lookaheadIndex = 2
    /\ lookaheadBuffer[1].hidden
    /\ ~lookaheadBuffer[2].hidden

\* C15: the grammar function runs only once initialize has consumed the
\* whole source; while it runs no matcher is applied (the source position,
\* the lookahead buffer and the accepted matches stay as they are); a parse
\* call whose tokenization fails ends without invoking the grammar function.
C15_TokenizeThenGrammar ==
    /\ [](pc = "grammar" => index >= Len(buffer))
    /\ [][/\ pc = "grammar"
               => UNCHANGED <<buffer, index, lookaheadBuffer, producer, matchLog>>
          /\ (pc # "grammar" /\ pc' = "grammar")
               => (pc = "tokenizing" /\ index >= Len(buffer) /\ last'.op = "main")
          /\ (pc = "tokenizing" /\ pc' # "tokenizing" /\ pc' # "grammar")
               => (pc' = "idle" /\ last'.op = "parse" /\ last'.err # NoError)]_vars

\* The grammar function starts on a source that took two matches to consume.
C15_Witness ==
    /\ pc = "grammar"
    /\ last.op = "main"
    /\ Len(matchLog) = 2
    /\ Len(lookaheadBuffer) = 2
    /\ index = Len(buffer)

\* What initialize pushes for a source and a registry, from position idx
\* on, when no matcher fails.
RECURSIVE TokensOf(_, _, _)
TokensOf(buf, idx, types) ==
    IF TokenizerIsEOF(buf, idx)
    THEN <<>>
    ELSE LET r == ReadToken(buf, idx, types)
         IN  IF r.err # NoError
             THEN <<>>
             ELSE <<r.tok>> \o TokensOf(buf, r.index, types)

\* C16: a parse call made when none is running is never turned away by what
\* an earlier call left behind; it starts with an empty lookahead buffer and
\* the read cursor at 0, and the buffer the grammar function starts on is
\* the one the registry and the source determine.
C16_ParseStartsAfresh ==
    /\ (pc = "idle" /\ last.op = "parse") => last.err # ErrWhilstParsing
    /\ last.op = "initialize"
           => (index = 0 /\ lookaheadIndex = 0 /\ lookaheadBuffer = <<>>
                 /\ matchLog = <<>>)
    /\ (pc = "grammar" /\ last.op = "main")
           => lookaheadBuffer = TokensOf(buffer, 0, TokenTypes)

\* The registry after one more definition was appended to it.
Registered(name, matcher, hidden) ==
    Append(TokenTypes, [name |-> name, matcher |-> matcher, hidden |-> hidden])

\* C18: while not parsing, registerToken and registerHiddenToken given a
\* RegExp or a function append exactly one definition, of the name and the
\* matcher given and with hidden false and true respectively, at the end of
\* the registry and leave the earlier entries as they are; given any other
\* matcher they fail and leave the registry unchanged.
C18_RegistrationAppends ==
    [][(last'.op \in {"registerToken", "registerHiddenToken"} /\ ~parsing)
          => /\ \A r \in VisibleRegistrations :
                    registerToken(r.name, r.matcher) =>
                       IF r.matcher.kind \in {"RegExp", "function"}
                       THEN /\ last'.err = NoError
                            /\ TokenTypes' = Registered(r.name, r.matcher, FALSE)
                       ELSE /\ last'.err = ErrMatcherType
                            /\ TokenTypes' = TokenTypes
             /\ \A r \in HiddenRegistrations :
                    registerHiddenToken(r.name, r.matcher) =>
                       IF r.matcher.kind \in {"RegExp", "function"}
                       THEN /\ last'.err = NoError
                            /\ TokenTypes' = Registered(r.name, r.matcher, TRUE)
                       ELSE /\ last'.err = ErrMatcherType
                            /\ TokenTypes' = TokenTypes
             /\ Len(TokenTypes') \in {Len(TokenTypes), Len(TokenTypes) + 1}
             /\ SubSeq(TokenTypes', 1, Len(TokenTypes)) = TokenTypes]_vars

\* A hidden definition was appended after a visible one made by a routine.
C18_Witness ==
    /\ last.op = "registerHiddenToken"
    /\ last.err = NoError
    /\ Len(TokenTypes) = 2
    /\ TokenTypes[1].matcher.kind = "function"
    /\ ~TokenTypes[1].hidden
    /\ TokenTypes[2].hidden

\* The visible tokens of the lookahead buffer at raw position pos (counted
\* from 0) or later, and the first of them, if any.
VisibleFrom(pos) ==
    {j \in (pos + 1)..Len(lookaheadBuffer) :
        lookaheadBuffer[j] # Null /\ ~lookaheadBuffer[j].hidden}

FirstVisible(pos) ==
    IF VisibleFrom(pos) = {} THEN Null ELSE lookaheadBuffer[First(VisibleFrom(pos))]

\* C19: during a parse, peek(offset) returns the first visible token at raw
\* position read cursor + offset or later, and nothing when there is none;
\* the offset counts hidden entries too, so that, when the entry at that
\* position is hidden, peek(offset + 1) returns the same token.
C19_PeekOffsetIsRaw ==
    [][(last'.op = "peek" /\ parsing)
          => \A offset \in 0..MaxOffset :
                peek(offset) =>
                   /\ last'.tok = FirstVisible(lookaheadIndex + offset)
                   /\ PeekToken(lookaheadBuffer, lookaheadIndex, offset).hidden
                          => last'.tok = PeekResult(lookaheadBuffer, lookaheadIndex,
                                                    offset + 1)]_vars

\* peek returned the second entry, the first one at the cursor being hidden.
C19_Witness ==
    /\ pc = "grammar"
    /\ last.op = "peek"
    /\ lookaheadIndex = 0
    /\ Len(lookaheadBuffer) = 2
    /\ lookaheadBuffer[1].hidden
    /\ last.tok = lookaheadBuffer[2]
    /\ last.tok # Null

\* C20: during a parse, isEOF is true exactly when no visible token is at
\* the read cursor or later, which is when peek(0) returns nothing, and
\* isPeekType(type, offset) is true exactly when peek(offset) returns a
\* token of that type.
C20_IsEOFAndIsPeekType ==
    [][(last'.op \in {"isEOF", "isPeekType"} /\ parsing)
          => /\ isEOF =>
                    /\ last'.bool = (VisibleFrom(lookaheadIndex) = {})
                    /\ last'.bool
                           = (PeekResult(lookaheadBuffer, lookaheadIndex, 0) = Null)
             /\ \A tokenType \in TokenNames, offset \in 0..MaxOffset :
                    isPeekType(tokenType, offset) =>
                       last'.bool
                          = (/\ FirstVisible(lookaheadIndex + offset) # Null
                             /\ FirstVisible(lookaheadIndex + offset).type
                                    = tokenType)]_vars

\* isEOF was true though a token, a hidden one, is left at the read cursor.
C20_Witness ==
    /\ pc = "grammar"
    /\ last.op = "isEOF"
    /\ last.bool
    /\ lookaheadIndex = 1
    /\ Len(lookaheadBuffer) = 2
    /\ lookaheadBuffer[2].hidden

\* The sources the guide's grammar is for: literals (a run of digits, or a
\* quote, any characters but that quote and the same quote again), each
\* followed by one or more terminators (a semicolon or a newline), the
\* terminators of the last literal being optional. LiteralsFrom reads the
\* source from position i on: whether it is such a source, and the literals
\* it is made of, as the nodes the grammar returns for them.
IsTerminator(c) == c \in {";", "n"}

ClosingQuote(s, i) ==
    IF \E k \in (i + 1)..Len(s) : s[k] = s[i]
    THEN First({k \in (i + 1)..Len(s) : s[k] = s[i]})
    ELSE 0

AfterTerminators(s, j) ==
    First({k \in j..(Len(s) + 1) : k > Len(s) \/ ~IsTerminator(s[k])})

AfterDigits(s, i) ==
    First({k \in i..(Len(s) + 1) : k > Len(s) \/ s[k] # "1"})

RECURSIVE LiteralsFrom(_, _)
LiteralThen(s, j, node) ==
    IF j > Len(s)
    THEN [ok |-> TRUE, list |-> <<node>>]
    ELSE IF ~IsTerminator(s[j])
    THEN [ok |-> FALSE, list |-> <<>>]
    ELSE [ok |-> LiteralsFrom(s, AfterTerminators(s, j)).ok,
          list |-> <<node>> \o LiteralsFrom(s, AfterTerminators(s, j)).list]

LiteralsFrom(s, i) ==
    IF i > Len(s)
    THEN [ok |-> TRUE, list |-> <<>>]
    ELSE IF s[i] = "1"
    THEN LiteralThen(s, AfterDigits(s, i),
                     [type |-> "NumLiteral",
                      num |-> NumberOf(SubSeq(s, i, AfterDigits(s, i) - 1)),
                      str |-> <<>>])
    ELSE IF s[i] \in {"'", "\""} /\ ClosingQuote(s, i) # 0
    THEN LiteralThen(s, ClosingQuote(s, i) + 1,
                     [type |-> "StrLiteral", num |-> 0,
                      str |-> SubSeq(s, i + 1, ClosingQuote(s, i) - 1)])
    ELSE [ok |-> FALSE, list |-> <<>>]

\* C17: the parser of the guide, given a source made of literals each
\* followed by one or more terminators (those of the last one optional),
\* returns without an error the list of the literals in the order of the
\* source.
C17_GuideParsesLiterals ==
    (pc = "idle" /\ last.op = "parse" /\ LiteralsFrom(buffer, 1).ok)
        => /\ last.err = NoError
           /\ main.StatementList = LiteralsFrom(buffer, 1).list

\* The characters the matches of a log have consumed.
RECURSIVE SumOfLengths(_)
SumOfLengths(log) ==
    IF log = <<>> THEN 0 ELSE Head(log).length + SumOfLengths(Tail(log))

\* C21: tokenization makes progress until it ends: every accepted match,
\* token or discard, consumes at least one character and the position is the
\* sum of what they consumed; the position never exceeds the length of the
\* source; a turn of initialize's loop fails or moves the position forward,
\* and one that reaches the end of the source, by a discard too, stops
\* without a failure; the grammar function starts at the end of the source.
C21_TokenizationTerminates ==
    /\ [](/\ index \in 0..Len(buffer)
          /\ \A i \in 1..Len(matchLog) : matchLog[i].length >= 1
          /\ index = SumOfLengths(matchLog)
          /\ pc = "grammar" => index = Len(buffer))
    /\ [][InitializeLoop
             => /\ (pc' = "idle" /\ last'.err # NoError) \/ index' > index
                /\ index' >= Len(buffer)
                       => (pc' = "tokenizing" /\ last'.err = NoError)]_vars

\* A discard after a token has reached the end of the source.
C21_Witness ==
    /\ pc = "tokenizing"
    /\ last.op = "readToken"
    /\ last.tok = Null
    /\ index = Len(buffer)
    /\ Len(matchLog) = 2
    /\ lookaheadBuffer[1] # Null

\* C22: a matcher result of length zero with no value is no match: no
\* accepted match, token or discard, is of a TokenType that gave such a
\* result where the match was made, the TokenTypes registered before the
\* one chosen were passed over at that same position, tokenization fails
\* for want of a match only where every TokenType gives such a result, and
\* no token has an empty value.
C22_ZeroLengthIsNoMatch ==
    /\ [](/\ \A i \in 1..Len(matchLog), j \in 1..Len(TokenTypes) :
                 ReportsNoMatch(TokenTypes[j], Remainder(matchLog[i].pos))
                    => /\ matchLog[i].def # j
                       /\ matchLog[i].length >= 1 \/ matchLog[i].value # <<>>
          /\ \A i \in 1..Len(lookaheadBuffer) :
                 lookaheadBuffer[i] # Null => lookaheadBuffer[i].value # <<>>)
    /\ [][(InitializeLoop /\ last'.err = ErrUndefinedToken)
             => \A j \in 1..Len(TokenTypes) :
                   ReportsNoMatch(TokenTypes[j], Remainder(index'))]_vars

\* A match was made by the second TokenType where the first one, a RegExp,
\* had matched the empty string.
C22_Witness ==
    /\ Len(TokenTypes) = 2
    /\ TokenTypes[1].matcher.kind = "RegExp"
    /\ \E i \in 1..Len(matchLog) :
           /\ matchLog[i].def = 2
           /\ RegExpMatch(TokenTypes[1].matcher, Remainder(matchLog[i].pos)).found
           /\ RegExpMatch(TokenTypes[1].matcher, Remainder(matchLog[i].pos)).value
                  = <<>>

\* The accepted match e made a token: its TokenType has a name and its
\* value is not empty.
MadeToken(e) == TokenTypes[e.def].name # NoName /\ e.value # <<>>

RECURSIVE TokensMade(_)
TokensMade(log) ==
    IF log = <<>> THEN 0
    ELSE (IF MadeToken(Head(log)) THEN 1 ELSE 0) + TokensMade(Tail(log))

\* C23 as stated: once initialize has succeeded no entry of the lookahead
\* buffer is null and the buffer is as long as the number of the tokens
\* that named matches with a value have made.
C23_NoNullEntry ==
    pc = "grammar"
        => /\ \A i \in 1..Len(lookaheadBuffer) : lookaheadBuffer[i] # Null
           /\ Len(lookaheadBuffer) = TokensMade(matchLog)

\* C23 amended: a discard that reaches the end of the source makes no token
\* but leaves one null entry: an entry of the lookahead buffer is null only
\* if it is the last one, the source is consumed and the last accepted match
\* was a discard; once initialize has succeeded the buffer holds the tokens
\* made and, exactly when the source ended with a discard, one null entry
\* after them.
C23_NullEntryOnlyLast ==
    /\ \A i \in 1..Len(lookaheadBuffer) :
           lookaheadBuffer[i] = Null
              => /\ i = Len(lookaheadBuffer)
                 /\ index = Len(buffer)
                 /\ matchLog # <<>>
                 /\ ~MadeToken(matchLog[Len(matchLog)])
    /\ pc = "grammar"
           => Len(lookaheadBuffer)
                 = TokensMade(matchLog)
                      + (IF matchLog # <<>> /\ ~MadeToken(matchLog[Len(matchLog)])
                         THEN 1 ELSE 0)

\* initialize has succeeded on a source of a token and a discard after it.
C23_Witness ==
    /\ pc = "grammar"
    /\ Len(lookaheadBuffer) = 2
    /\ lookaheadBuffer[1] # Null
    /\ lookaheadBuffer[2] = Null
    /\ TokensMade(matchLog) = 1

\* The tokens the accepted matches of a log make, the discards left out.
RECURSIVE TokensOfLog(_)
TokensOfLog(log) ==
    IF log = <<>> THEN <<>>
    ELSE (IF MadeToken(Head(log))
          THEN <<[type |-> TokenTypes[Head(log).def].name,
                  value |-> Head(log).value,
                  hidden |-> TokenTypes[Head(log).def].hidden]>>
          ELSE <<>>) \o TokensOfLog(Tail(log))

\* The first TokenType of the registry that reports a match at pos.
FirstMatching(pos) ==
    First({j \in 1..Len(TokenTypes) : ReportsMatch(TokenTypes[j], Remainder(pos))})

\* C24: every accepted match, a discard as well as a token, starts where the
\* one before it ended (the first at 0) and is the first match of the
\* registry, tried from its first entry, at that position; the tokens of the
\* lookahead buffer are those of the accepted matches in the order of the
\* source, the discards (matches of a type with no name, or with an empty
\* value) left out.
C24_DiscardsAreSkipped ==
    /\ \A i \in 1..Len(matchLog) :
           /\ matchLog[i].pos
                  = (IF i = 1 THEN 0
                     ELSE matchLog[i - 1].pos + matchLog[i - 1].length)
           /\ ReportsMatch(TokenTypes[matchLog[i].def], Remainder(matchLog[i].pos))
           /\ matchLog[i].def = FirstMatching(matchLog[i].pos)
           /\ matchLog[i].length
                  = ApplyMatcher(TokenTypes[matchLog[i].def],
                                 Remainder(matchLog[i].pos)).tokenLength
    /\ SelectSeq(lookaheadBuffer, LAMBDA t : t # Null) = TokensOfLog(matchLog)

\* A type with a name has matched a blank with an empty value, a discard,
\* and the token after it is of a type registered before that one.
C24_Witness ==
    /\ Len(matchLog) = 2
    /\ TokenTypes[matchLog[1].def].name # NoName
    /\ matchLog[1].value = <<>>
    /\ matchLog[1].length = 1
    /\ matchLog[2].def < matchLog[1].def
    /\ Len(lookaheadBuffer) = 1
    /\ lookaheadBuffer[1] # Null

\* No TokenType of the registry matches at pos, none raising an error.
NoneMatches(pos) ==
    \A j \in 1..Len(TokenTypes) : ReportsNoMatch(TokenTypes[j], Remainder(pos))

\* C25: a turn of initialize's loop that starts where no TokenType matches,
\* or that comes by discards to such a position before the end of the
\* source, makes parse fail with the Undefined Token error, and this error
\* is raised nowhere else; it is never raised for an empty source, whose
\* lookahead buffer is empty.
C25_UndefinedToken ==
    /\ [](/\ last.err = ErrUndefinedToken
                => (last.op = "parse" /\ pc = "idle" /\ buffer # <<>>)
          /\ (buffer = <<>> /\ pc = "grammar") => lookaheadBuffer = <<>>)
    /\ [][InitializeLoop
             => /\ NoneMatches(index)
                      => /\ last' = Call("parse", ErrUndefinedToken, Null, FALSE)
                         /\ pc' = "idle"
                         /\ UNCHANGED <<index, lookaheadBuffer>>
                /\ (/\ index' < Len(buffer)
                    /\ NoneMatches(index')
                    /\ matchLog' # <<>>
                    /\ ~MadeToken(matchLog'[Len(matchLog')]))
                      => (last'.err = ErrUndefinedToken /\ pc' = "idle")
                /\ last'.err = ErrUndefinedToken
                      => (index' < Len(buffer) /\ NoneMatches(index'))]_vars

\* parse has failed for want of a match at the position a discard led to.
C25_Witness ==
    /\ pc = "idle"
    /\ last.op = "parse"
    /\ last.err = ErrUndefinedToken
    /\ Len(matchLog) = 1
    /\ ~MadeToken(matchLog[1])
    /\ index = 1
    /\ Len(TokenTypes) = 2

\* The TokenType at j is a routine that returns false or null at pos.
RejectedBy(j, pos) ==
    /\ TokenTypes[j].matcher.kind = "function"
    /\ Match(TokenTypes[j].matcher, Remainder(pos)).err = NoError
    /\ Match(TokenTypes[j].matcher, Remainder(pos)).ret \in {"false", "null"}

\* C26: a routine that returns false or null has matched nothing, whatever
\* it has read or omitted: no accepted match is of such a TokenType where it
\* was made, and a turn of initialize's loop whose first TokenType returns
\* so ends as #readToken does from the second TokenType on at the same
\* position.
C26_RejectedAttemptLeavesNoTrace ==
    /\ [](\A i \in 1..Len(matchLog), j \in 1..Len(TokenTypes) :
             RejectedBy(j, matchLog[i].pos) => matchLog[i].def # j)
    /\ [][(InitializeLoop /\ TokenTypes # <<>> /\ RejectedBy(1, index))
             => PushToken(ReadTokenFrom(buffer, index, TokenTypes, 2, <<>>))]_vars

\* The second TokenType has matched where the first one, a routine, had
\* consumed a character and then returned null.
C26_Witness ==
    /\ Len(TokenTypes) = 2
    /\ \E i \in 1..Len(matchLog) :
           /\ matchLog[i].def = 2
           /\ RejectedBy(1, matchLog[i].pos)
           /\ Match(TokenTypes[1].matcher, Remainder(matchLog[i].pos)).length >= 1
           /\ Match(TokenTypes[1].matcher, Remainder(matchLog[i].pos)).value # <<>>

\* The calls of readChar and omitChar a routine makes on an input, from its
\* step k on, each with what it returned (<<>> for null or an error): a
\* step "read" or "omit" is one call, the while loop of the STRING routine
\* one call of readChar for every character it passes.
RECURSIVE CallsFrom(_, _, _, _, _)
CallsAfter(m, buf, k, idx, r) ==
    (CASE m.steps[k].op \in {"read", "omit"}
            -> <<[op |-> m.steps[k].op, ret |-> r.ret]>>
       [] m.steps[k].op = "readToCharAt0"
            -> [i \in 1..(r.index - idx) |-> [op |-> "read", ret |-> <<buf[idx + i]>>]]
       [] OTHER -> <<>>)
    \o (IF r.err # NoError \/ (r.ret = <<>> /\ m.steps[k].onMiss # "ignore")
        THEN <<>>
        ELSE CallsFrom(m, buf, k + 1, r.index, r.result))

CallsFrom(m, buf, k, idx, result) ==
    IF k > Len(m.steps)
    THEN <<>>
    ELSE CallsAfter(m, buf, k, idx, CallPrimitive(m.steps[k], buf, idx, result))

\* The characters the successful calls of readChar returned, in order, and
\* the number of the successful calls.
RECURSIVE CharactersRead(_)
CharactersRead(calls) ==
    IF calls = <<>> THEN <<>>
    ELSE (IF Head(calls).op = "read" THEN Head(calls).ret ELSE <<>>)
            \o CharactersRead(Tail(calls))

Successful(calls) == Cardinality({i \in 1..Len(calls) : calls[i].ret # <<>>})

\* C27: the value of an accepted match of a routine is made of the
\* characters its successful calls of readChar returned, in order, and its
\* length is the number of its successful calls of readChar and omitChar; a
\* STRING token so has as value what is between its quotes while its length
\* counts both of them.
C27_ValueAndLengthOfRoutine ==
    \A i \in 1..Len(matchLog) :
        LET e == matchLog[i]
            m == TokenTypes[e.def].matcher
            calls == CallsFrom(m, Remainder(e.pos), 1, 0, <<>>)
        IN  m.kind = "function"
               => /\ e.value = CharactersRead(calls)
                  /\ e.length = Successful(calls)
                  /\ TokenTypes[e.def].name = "STRING"
                         => /\ buffer[e.pos + 1] \in {"'", "\""}
                            /\ buffer[e.pos + e.length] = buffer[e.pos + 1]
                            /\ e.value = SubSeq(buffer, e.pos + 2,
                                                e.pos + e.length - 1)

\* A STRING token of one character, read between two omitted quotes.
C27_Witness ==
    /\ pc = "grammar"
    /\ \E i \in 1..Len(lookaheadBuffer) :
           /\ lookaheadBuffer[i].type = "STRING"
           /\ Len(lookaheadBuffer[i].value) = 1
    /\ \E i \in 1..Len(matchLog) :
           /\ TokenTypes[matchLog[i].def].name = "STRING"
           /\ matchLog[i].length = 3
           /\ Len(matchLog[i].value) = 1

\* Constraints a routine may give to readChar and omitChar: a character, a
\* longer string (its first character counts), arrays of characters.
Constraints ==
    {OneChar(c) : c \in Chars}
        \cup {[arr |-> FALSE, items |-> <<"1", "n">>],
              [arr |-> TRUE, items |-> <<" ", "1">>],
              [arr |-> TRUE, items |-> <<>>]}

\* The characters a constraint allows.
Allowed(constraint) ==
    IF constraint.arr
    THEN {constraint.items[i] : i \in 1..Len(constraint.items)}
    ELSE {constraint.items[1]}

\* C28: at every position of the source before its end and with any result
\* so far, readChar and omitChar with a constraint the character there does
\* not meet return null and leave the cursor and the result as they are,
\* without an error; the test of peekChar and the one of isEOF leave them so
\* always; and a routine goes on after a call that returned null.
C28_FailedConstraintChangesNothing ==
    \A idx \in 0..(Len(buffer) - 1), result \in {<<>>, <<"1">>},
       constraint \in Constraints :
        /\ buffer[idx + 1] \notin Allowed(constraint)
              => /\ ReadChar(buffer, idx, result, constraint)
                       = [err |-> NoError, ret |-> <<>>, index |-> idx,
                          result |-> result]
                 /\ OmitChar(buffer, idx, result, constraint)
                       = [err |-> NoError, ret |-> <<>>, index |-> idx,
                          result |-> result]
                 /\ RunPattern(Routine(<<Step("read", constraint, "ignore"),
                                         Step("omit", constraint, "ignore"),
                                         Step("read", NoConstraint, "ignore")>>,
                                       "undefined"),
                               buffer, 1, idx, result)
                       = [err |-> NoError, ret |-> "undefined", index |-> idx + 1,
                          result |-> Append(result, buffer[idx + 1])]
        /\ buffer[idx + 1] \in Allowed(constraint)
              => /\ ReadChar(buffer, idx, result, constraint).index = idx + 1
                 /\ OmitChar(buffer, idx, result, constraint).index = idx + 1
        /\ PeekIn(buffer, idx, result, constraint).index = idx
        /\ PeekIn(buffer, idx, result, constraint).result = result
        /\ ThrowIfEOF(buffer, idx, result).index = idx
        /\ ThrowIfEOF(buffer, idx, result).result = result

\* A routine has made a token after its first call, of omitChar, returned
\* null.
C28_Witness ==
    \E i \in 1..Len(matchLog) :
        LET e == matchLog[i]
            m == TokenTypes[e.def].matcher
        IN  /\ m.kind = "function"
            /\ Len(m.steps) = 2
            /\ m.steps[1].op = "omit"
            /\ OmitChar(Remainder(e.pos), 0, <<>>, m.steps[1].constraint).ret = <<>>
            /\ e.length = 1
            /\ e.value = <<"1">>

\* The errors of readChar and omitChar at the end of the input.
EndOfInputErrors == {ErrReadChar, ErrOmitChar}

\* At pos the TokenTypes before the one at j match nothing and the matcher
\* of the one at j ends with an error of readChar or omitChar.
ThrowsFirst(j, pos) ==
    /\ ApplyMatcher(TokenTypes[j], Remainder(pos)).err \in EndOfInputErrors
    /\ \A k \in 1..(j - 1) : ReportsNoMatch(TokenTypes[k], Remainder(pos))

\* C29: readChar and omitChar called at the end of the input raise their
\* error and move nothing; a turn of initialize's loop in which a routine
\* does so, before any TokenType has matched, ends the parse call with that
\* error, whatever the TokenTypes after it would match, and pushes nothing;
\* the grammar function is not called then; no routine consumes more than
\* its input has.
C29_ReadPastEndIsFatal ==
    /\ [](/\ \A result \in {<<>>, <<"1">>}, constraint \in Constraints \cup {NoConstraint} :
                 /\ ReadChar(buffer, Len(buffer), result, constraint)
                       = [err |-> ErrReadChar, ret |-> <<>>, index |-> Len(buffer),
                          result |-> result]
                 /\ OmitChar(buffer, Len(buffer), result, constraint)
                       = [err |-> ErrOmitChar, ret |-> <<>>, index |-> Len(buffer),
                          result |-> result]
          /\ last.err \in EndOfInputErrors => (last.op = "parse" /\ pc = "idle")
          /\ \A j \in 1..Len(TokenTypes), pos \in 0..Len(buffer) :
                 TokenTypes[j].matcher.kind = "function"
                    => Match(TokenTypes[j].matcher, Remainder(pos)).length
                          <= Len(buffer) - pos)
    /\ [][InitializeLoop
             => \A j \in 1..Len(TokenTypes) :
                   ThrowsFirst(j, index)
                      => /\ last' = Call("parse",
                                         ApplyMatcher(TokenTypes[j], Remainder(index)).err,
                                         Null, FALSE)
                         /\ pc' = "idle"
                         /\ UNCHANGED <<index, lookaheadBuffer>>]_vars

\* parse has failed with the error of readChar where the TokenType after
\* the routine would have matched.
C29_Witness ==
    /\ pc = "idle"
    /\ last.op = "parse"
    /\ last.err = ErrReadChar
    /\ Len(TokenTypes) = 2
    /\ ThrowsFirst(1, index)
    /\ ReportsMatch(TokenTypes[2], Remainder(index))
    /\ lookaheadBuffer = <<>>

\* C30: a parse call the grammar function makes is rejected and changes
\* nothing of the running parse: the lookahead buffer, the read cursor, the
\* registry and the parsing flag are as before, the grammar function is
\* still running, and peek and read give what they would have given before
\* the call.
C30_RejectedParseChangesNothing ==
    [][(pc = "grammar" /\ parse(buffer'))
          => /\ last'.err = ErrWhilstParsing
             /\ pc' = "grammar"
             /\ lookaheadBuffer' = lookaheadBuffer
             /\ lookaheadIndex' = lookaheadIndex
             /\ TokenTypes' = TokenTypes
             /\ parsing' = parsing
             /\ parsing'
             /\ \A tokenType \in TokenNames :
                    ReadResult(lookaheadBuffer', lookaheadIndex', tokenType)
                       = ReadResult(lookaheadBuffer, lookaheadIndex, tokenType)
             /\ \A offset \in 0..MaxOffset :
                    PeekResult(lookaheadBuffer', lookaheadIndex', offset)
                       = PeekResult(lookaheadBuffer, lookaheadIndex, offset)]_vars

\* A parse call was rejected after the grammar function had read a token
\* and with another one left to read.
C30_Witness ==
    /\ pc = "grammar"
    /\ last.op = "parse"
    /\ last.err = ErrWhilstParsing
    /\ lookaheadIndex = 1
    /\ Len(lookaheadBuffer) = 2
    /\ lookaheadBuffer[2] # Null

\* C31: a failing read is not rolled back. When read fails with the wrong
\* token error the cursor stands just past the offending token, which is
\* visible and of another type, and every entry passed over on the way is a
\* hidden token of another type; when read fails with the end of input error
\* the cursor stands at the end of the lookahead buffer. In both cases the
\* cursor is not put back: it moved forward, or was at the end already.
C31_FailingReadNotRolledBack ==
    [][(last'.op = "read" /\ parsing)
          => \A tokenType \in TokenNames :
                read(tokenType) =>
                   /\ last'.err = ErrUnexpectedToken
                         => /\ lookaheadIndex' > lookaheadIndex
                            /\ lookaheadIndex' <= Len(lookaheadBuffer)
                            /\ lookaheadBuffer[lookaheadIndex'] # Null
                            /\ ~lookaheadBuffer[lookaheadIndex'].hidden
                            /\ lookaheadBuffer[lookaheadIndex'].type # tokenType
                            /\ \A j \in (lookaheadIndex + 1)..(lookaheadIndex' - 1) :
                                   /\ lookaheadBuffer[j].hidden
                                   /\ lookaheadBuffer[j].type # tokenType
                   /\ last'.err = ErrEndOfTokens
                         => /\ lookaheadIndex' = Len(lookaheadBuffer)
                            /\ lookaheadIndex' >= lookaheadIndex
                            /\ \A j \in (lookaheadIndex + 1)..Len(lookaheadBuffer) :
                                   \/ lookaheadBuffer[j] = Null
                                   \/ /\ lookaheadBuffer[j].hidden
                                      /\ lookaheadBuffer[j].type # tokenType
                   /\ last'.err \in {ErrUnexpectedToken, ErrEndOfTokens}
                         => \/ lookaheadIndex' # lookaheadIndex
                            \/ lookaheadIndex = Len(lookaheadBuffer)]_vars

\* read failed on a NUMBER after passing over a hidden token: the cursor
\* stands past both.
C31_Witness ==
    /\ pc = "grammar"
    /\ last.op = "read"
    /\ last.err = ErrUnexpectedToken
    /\ last.tok = Null
    /\ Len(lookaheadBuffer) = 2
    /\ lookaheadBuffer[1].hidden
    /\ lookaheadBuffer[2].type = "NUMBER"
    /\ lookaheadIndex = Len(lookaheadBuffer)

\* The hidden tokens of the requested type that stand between the read
\* cursor and position at of the lookahead buffer.
HiddenOfTypeBefore(at, tokenType) ==
    {j \in (lookaheadIndex + 1)..(at - 1) :
        lookaheadBuffer[j].hidden /\ lookaheadBuffer[j].type = tokenType}

\* C32: during a parse, when peek() returns a token T, read(T.type) called
\* next succeeds and returns a token of T's type standing at or before T in
\* the lookahead buffer: T itself, unless a hidden token of that type comes
\* first, and then the first such hidden token. The read cursor ends at most
\* one past T.
C32_ReadAfterPeekSucceeds ==
    [][(last'.op = "read" /\ parsing
            /\ PeekResult(lookaheadBuffer, lookaheadIndex, 0) # Null)
          => LET T == PeekResult(lookaheadBuffer, lookaheadIndex, 0)
                 at == First(VisibleFrom(lookaheadIndex))
                 earlier == HiddenOfTypeBefore(at, T.type)
             IN  read(T.type) =>
                    /\ lookaheadBuffer[at] = T
                    /\ last'.err = NoError
                    /\ last'.tok.type = T.type
                    /\ lookaheadIndex' > lookaheadIndex
                    /\ lookaheadIndex' <= at
                    /\ last'.tok = lookaheadBuffer[lookaheadIndex']
                    /\ earlier = {} => (last'.tok = T /\ lookaheadIndex' = at)
                    /\ earlier # {} => (/\ lookaheadIndex' = First(earlier)
                                        /\ last'.tok.hidden)]_vars

\* read returned the hidden token of type NUMBER standing before the
\* visible NUMBER that peek returns.
C32_Witness ==
    /\ pc = "grammar"
    /\ last.op = "read"
    /\ last.err = NoError
    /\ last.tok.hidden
    /\ last.tok.type = "NUMBER"
    /\ lookaheadIndex = 1
    /\ lookaheadBuffer[1] = last.tok
    /\ Len(lookaheadBuffer) = 2
    /\ ~lookaheadBuffer[2].hidden
    /\ lookaheadBuffer[2].type = "NUMBER"

\* The tokens left at the read cursor or later, and those of them that have
\* the requested type.
TokensLeft == {j \in (lookaheadIndex + 1)..Len(lookaheadBuffer) : lookaheadBuffer[j] # Null}

LeftOfType(tokenType) == {j \in TokensLeft : lookaheadBuffer[j].type = tokenType}

\* C33: during a parse, when tokens are left at the read cursor or later and
\* all of them are hidden, isEOF is true, and yet read(t) succeeds exactly
\* when one of them has type t: it returns the first such token and leaves
\* the cursor just past it. When none of them has type t, read fails with
\* the end of input error, the cursor at the end of the buffer.
C33_IsEOFYetReadSucceeds ==
    [][(/\ last'.op \in {"isEOF", "read"}
        /\ parsing
        /\ TokensLeft # {}
        /\ \A j \in TokensLeft : lookaheadBuffer[j].hidden)
          => /\ isEOF => last'.bool
             /\ \A tokenType \in TokenNames :
                    read(tokenType) =>
                       /\ last'.err = NoError <=> LeftOfType(tokenType) # {}
                       /\ LeftOfType(tokenType) # {}
                             => /\ last'.tok = lookaheadBuffer[First(LeftOfType(tokenType))]
                                /\ lookaheadIndex' = First(LeftOfType(tokenType))
                       /\ LeftOfType(tokenType) = {}
                             => /\ last'.err = ErrEndOfTokens
                                /\ lookaheadIndex' = Len(lookaheadBuffer)]_vars

\* With two hidden tokens and nothing else in the buffer, read passed over
\* the first and returned the second, which has the requested type.
C33_Witness ==
    /\ pc = "grammar"
    /\ last.op = "read"
    /\ last.err = NoError
    /\ Len(lookaheadBuffer) = 2
    /\ \A j \in 1..2 : lookaheadBuffer[j] # Null /\ lookaheadBuffer[j].hidden
    /\ lookaheadBuffer[1].type # lookaheadBuffer[2].type
    /\ last.tok = lookaheadBuffer[2]
    /\ lookaheadIndex = 2

\* C34: the canonical read refines the read of v1.0.0. From the same buffer
\* and cursor and for the same requested type, whenever the historical read
\* succeeds the canonical read succeeds with the same token and the same
\* final cursor. The two differ only when the historical read stopped, with
\* the wrong token error, on a hidden token of another type after which no
\* visible token is left: the canonical read passes over that token.
C34_CanonicalRefinesHistorical ==
    [][(last'.op = "read v1.0.0" /\ parsing)
          => \A tokenType \in TokenNames :
                readHistorical(tokenType) =>
                   LET c == ReadResult(lookaheadBuffer, lookaheadIndex, tokenType)
                   IN  /\ last'.err = NoError
                             => /\ c.err = NoError
                                /\ c.tok = last'.tok
                                /\ c.lookaheadIndex = lookaheadIndex'
                       /\ (\/ c.err # last'.err
                           \/ c.tok # last'.tok
                           \/ c.lookaheadIndex # lookaheadIndex')
                             => /\ last'.err = ErrUnexpectedToken
                                /\ lookaheadIndex' > lookaheadIndex
                                /\ lookaheadBuffer[lookaheadIndex'].hidden
                                /\ lookaheadBuffer[lookaheadIndex'].type # tokenType
                                /\ VisibleFrom(lookaheadIndex') = {}
                                /\ c.lookaheadIndex >= lookaheadIndex'
                                /\ c.err \in {NoError, ErrEndOfTokens}]_vars

\* The historical read passed over a hidden token, a visible token being
\* left, and returned that token as the canonical read does.
C34_Witness ==
    /\ pc = "grammar"
    /\ last.op = "read v1.0.0"
    /\ last.err = NoError
    /\ lookaheadIndex = 2
    /\ lookaheadBuffer[1].hidden
    /\ lookaheadBuffer[1].type # last.tok.type
    /\ lookaheadBuffer[2] = last.tok
    /\ ~last.tok.hidden

\* The segment of the source an accepted match has consumed.
Segment(e) == SubSeq(buffer, e.pos + 1, e.pos + e.length)

\* value is made of characters of segment, in their order.
RECURSIVE MadeOf(_, _)
MadeOf(value, segment) ==
    IF value = <<>> THEN TRUE
    ELSE IF segment = <<>> THEN FALSE
    ELSE IF Head(value) = Head(segment) THEN MadeOf(Tail(value), Tail(segment))
    ELSE MadeOf(value, Tail(segment))

\* C35: once initialize has succeeded, the segments the accepted matches,
\* tokens and discards, have consumed follow one another from the start of
\* the source to its end without a gap or an overlap, the position is the
\* length of the source, the tokens of the lookahead buffer are those the
\* matches made, in the order of their segments, and the value of every
\* token is made of characters of its own segment.
C35_SegmentsCoverSource ==
    pc = "grammar"
        => /\ index = Len(buffer)
           /\ \A i \in 1..Len(matchLog) :
                  /\ matchLog[i].length >= 1
                  /\ matchLog[i].pos
                        = IF i = 1 THEN 0
                          ELSE matchLog[i - 1].pos + matchLog[i - 1].length
           /\ matchLog = <<>> => buffer = <<>>
           /\ matchLog # <<>>
                  => matchLog[Len(matchLog)].pos + matchLog[Len(matchLog)].length
                        = Len(buffer)
           /\ SelectSeq(lookaheadBuffer, LAMBDA t : t # Null) = TokensOfLog(matchLog)
           /\ \A i \in 1..Len(matchLog) :
                  MadeToken(matchLog[i])
                     => MadeOf(matchLog[i].value, Segment(matchLog[i]))

====
